---------------------------- MODULE Spec2Model ----------------------------
(***************************************************************************)
(* Isochrone router Echeneis (src/src/router/echeneis.rs) as a state       *)
(* machine: route()'s buoy loop and navigate loop, navigate2's parallel    *)
(* expansion into the shared map of Navs and its post-processing, way2 /   *)
(* jump2 / buoy_reached, Buoy::reach and the reconstruction of the way.    *)
(*                                                                         *)
(* Discretisation.  The source works on f64 degrees, metres and seconds.   *)
(* The model keeps its arithmetic and control flow on an integer lattice:  *)
(*   - Coords are <<lat, lon>> integer cells; distances are milli-cells;   *)
(*     the metric is the lattice (Chebyshev) metric, for which the eight   *)
(*     compass moves are geodesics;                                        *)
(*   - headings are degrees, the bearing between two points is rounded to  *)
(*     the nearest of the eight compass headings, and the TWA sweep of     *)
(*     way2 visits the compass angles of TwaSweep;                         *)
(*   - durations are whole seconds, as chrono::Duration::seconds builds    *)
(*     them; speeds are milli-cells per minute; ratios are per-mille;      *)
(*   - the wind field is constant (Wind).                                  *)
(* Stamina, foils, ice limits and the isochrone sections for display are   *)
(* not read by any decision of the router and are left out of the route.   *)
(*                                                                         *)
(* SpecCalls checks the functions the router calls on their own (position  *)
(* .rs, polar/mod.rs, router/mod.rs): one call per behaviour, with its     *)
(* arguments drawn from bounded sets.                                      *)
(***************************************************************************)
EXTENDS Integers, Sequences, FiniteSets, TLC

\* ------------------------------------------------------------------ basics

None == <<>>
Some(x) == <<x>>
IsSome(o) == o # <<>>
Unwrap(o) == o[1]

Abs(x) == IF x < 0 THEN -x ELSE x
Max2(a, b) == IF a >= b THEN a ELSE b
Min2(a, b) == IF a <= b THEN a ELSE b

\* f64::round of num/den (den > 0): half away from zero.
RoundDiv(num, den) ==
    IF num >= 0 THEN (2 * num + den) \div (2 * den)
    ELSE -((2 * (-num) + den) \div (2 * den))

\* f64 -> integer ceil of a/b for a >= 0, b > 0.
CeilDiv(a, b) == (a + b - 1) \div b

\* The elements of a finite set of integers in increasing order
\* (BTreeMap iteration order, sort_by on absolute_duration).
RECURSIVE SortedSeq(_)
SortedSeq(S) ==
    IF S = {} THEN <<>>
    ELSE LET m == CHOOSE x \in S : \A y \in S : x <= y
         IN <<m>> \o SortedSeq(S \ {m})

\* ------------------------------------------------------------- units

MilliPerCell == 1000
SecPerMin == 60
\* chrono Duration::max_value(), returned by Distance / Speed when speed = 0
DurationMax == 1000000

\* impl Mul<Duration> for Speed: metres = m/s * num_seconds, here
\* milli-cells = (milli-cells per minute) * seconds / 60
SpeedMulDuration(speed, dur) == (speed * dur) \div SecPerMin

\* impl Div<Speed> for Distance: Duration::seconds((m / m_s) as i64),
\* Duration::max_value() when the speed is zero
DistanceDivSpeed(dist, speed) ==
    IF speed = 0 THEN DurationMax ELSE (dist * SecPerMin) \div speed

\* impl Mul<f64> for Speed with a per-mille ratio
SpeedMulRatio(speed, ratio) == (speed * ratio) \div 1000

\* ------------------------------------------------------------- geodesy

Lat(p) == p[1]
Lon(p) == p[2]

\* Algorithm::distance_to, in milli-cells
DistanceTo(a, b) ==
    MilliPerCell * Max2(Abs(Lat(b) - Lat(a)), Abs(Lon(b) - Lon(a)))

\* Algorithm::heading_to: atan2(dlon, dlat) wrapped to [0,360), rounded to
\* the nearest compass heading.  |tan| < tan(22.5) = sqrt(2)-1 is decided
\* exactly: a/b < sqrt(2)-1  <=>  (a+b)^2 < 2 b^2.
HeadingTo(from, to) ==
    LET dlat == Lat(to) - Lat(from)
        dlon == Lon(to) - Lon(from)
        a == Abs(dlon)
        b == Abs(dlat)
        nearLat == (a + b) * (a + b) < 2 * b * b
        nearLon == (a + b) * (a + b) < 2 * a * a
    IN  IF dlat = 0 /\ dlon = 0 THEN 0
        ELSE IF nearLat THEN (IF dlat > 0 THEN 0 ELSE 180)
        ELSE IF nearLon THEN (IF dlon > 0 THEN 90 ELSE 270)
        ELSE IF dlat > 0 THEN (IF dlon > 0 THEN 45 ELSE 315)
        ELSE (IF dlon > 0 THEN 135 ELSE 225)

\* unit move of a compass heading
DirVec(h) ==
    CASE h = 0   -> <<1, 0>>
      [] h = 45  -> <<1, 1>>
      [] h = 90  -> <<0, 1>>
      [] h = 135 -> <<-1, 1>>
      [] h = 180 -> <<-1, 0>>
      [] h = 225 -> <<-1, -1>>
      [] h = 270 -> <<0, -1>>
      [] h = 315 -> <<1, -1>>

\* Algorithm::destination: the lattice point reached from `from` on heading
\* h after `dist` milli-cells (whole cells only)
Destination(from, h, dist) ==
    LET n == dist \div MilliPerCell
        v == DirVec(h)
    IN  <<Lat(from) + n * v[1], Lon(from) + n * v[2]>>

\* ------------------------------------------------------------- headings

HEADING(h) == [kind |-> "heading", val |-> h]
TWA(t) == [kind |-> "twa", val |-> t]

\* Heading::heading
HeadingOf(hd, twd) ==
    IF hd.kind = "heading" THEN hd.val
    ELSE LET h0 == twd - hd.val
             h1 == IF h0 < 0 THEN h0 + 360 ELSE h0
         IN  IF h1 >= 360 THEN h1 - 360 ELSE h1

\* a twa measured from the wind to the bow: heading - twd
TwaOfFromWind(hd, twd) ==
    IF hd.kind = "twa" THEN hd.val
    ELSE LET t0 == hd.val - twd
             t1 == IF t0 <= -180 THEN t0 + 360 ELSE t0
         IN  IF t1 > 180 THEN t1 - 360 ELSE t1

\* Heading::twa
TwaOf(hd, twd) ==
    IF hd.kind = "twa" THEN hd.val
    ELSE LET t0 == twd - hd.val
             t1 == IF t0 <= -180 THEN t0 + 360 ELSE t0
         IN  IF t1 > 180 THEN t1 - 360 ELSE t1

\* ------------------------------------------------------------- sails

\* Sail::AUTO
AUTO == [index |-> 0, id |-> 1, auto |-> TRUE]

\* the sails a polar can hold: ids 1 to NbSails
NbSails == 7

\* Sail::from_index
SailFromIndex(i) == [index |-> i, id |-> i + 1, auto |-> FALSE]

\* impl From<usize> for Sail (the polar builds its sails with sail.id.into())
SailFromId(sail_id) ==
    [index |-> Max2(sail_id % 10, 1) - 1,
     id    |-> Max2(sail_id % 10, 1),
     auto  |-> sail_id >= 10]

\* impl PartialEq for Sail: by id only
SailEq(a, b) == a.id = b.id

\* ------------------------------------------------------------- penalties

NoPenalties == [gybe |-> None, sail_change |-> None, tack |-> None]

\* Penalties::is_some
PenIsSome(p) ==
    \/ (IsSome(p.gybe) /\ Unwrap(p.gybe).duration # 0)
    \/ (IsSome(p.sail_change) /\ Unwrap(p.sail_change).duration # 0)
    \/ (IsSome(p.tack) /\ Unwrap(p.tack).duration # 0)

\* a step with the comparison turned round: it keeps the longest duration
MinStepLongest(min, comp) ==
    IF IsSome(comp)
    THEN (IF ~(IsSome(min) /\ Unwrap(min) >= Unwrap(comp).duration)
          THEN Some(Unwrap(comp).duration) ELSE min)
    ELSE min

\* one step of Penalties::min_penalty_duration
MinStep(min, comp) ==
    IF IsSome(comp)
    THEN (IF ~(IsSome(min) /\ Unwrap(min) <= Unwrap(comp).duration)
          THEN Some(Unwrap(comp).duration) ELSE min)
    ELSE min

\* Penalties::min_penalty_duration
MinPenaltyDuration(p) ==
    MinStep(MinStep(MinStep(None, p.gybe), p.sail_change), p.tack)

CompDuration(comp) == IF IsSome(comp) THEN Unwrap(comp).duration ELSE 0
CompRatio(comp) == IF IsSome(comp) THEN Unwrap(comp).ratio ELSE 1000

\* Penalties::duration
PenDuration(p) ==
    Max2(CompDuration(p.gybe),
         Max2(CompDuration(p.sail_change), CompDuration(p.tack)))

\* one component of Penalties::navigate and of Sub<Duration>
CompSub(comp, d) ==
    IF IsSome(comp)
    THEN (IF Unwrap(comp).duration <= d THEN None
          ELSE Some([duration |-> Unwrap(comp).duration - d,
                     ratio |-> Unwrap(comp).ratio]))
    ELSE None

\* impl Sub<Duration> for Penalties
PenSub(p, d) ==
    [gybe |-> CompSub(p.gybe, d),
     sail_change |-> CompSub(p.sail_change, d),
     tack |-> CompSub(p.tack, d)]

\* a navigate that multiplies the ratios of the components it keeps only
PenNavigateKept(p, d) ==
    [pen |-> PenSub(p, d),
     ratio |-> (((CompRatio(CompSub(p.gybe, d)) * CompRatio(CompSub(p.sail_change, d)))
                   \div 1000) * CompRatio(CompSub(p.tack, d))) \div 1000]

\* Penalties::navigate: the penalties left after d and the product of the
\* ratios of every component present (per-mille)
PenNavigate(p, d) ==
    [pen |-> PenSub(p, d),
     ratio |-> (((CompRatio(p.gybe) * CompRatio(p.sail_change)) \div 1000)
                  * CompRatio(p.tack)) \div 1000]

\* Vec::insert(index, x) with a 0-based index
InsertAt(v, index, x) ==
    SubSeq(v, 1, index) \o <<x>> \o SubSeq(v, index + 1, Len(v))

\* Penalties::merge_penalty (index is 0-based as in the source)
RECURSIVE MergePenalty(_, _, _)
MergePenalty(penalties, index, penalty) ==
    IF ~IsSome(penalty) THEN penalties
    ELSE LET pn == Unwrap(penalty) IN
         IF pn.duration = 0 THEN penalties
         ELSE IF Len(penalties) = 0 \/ Len(penalties) >= index
              THEN Append(penalties, pn)
         ELSE IF penalties[index + 1].duration <= pn.duration
              THEN MergePenalty(
                      [penalties EXCEPT ![index + 1].ratio =
                           (@ * pn.ratio) \div 1000],
                      index + 1,
                      Some([duration |-> pn.duration - penalties[index + 1].duration,
                            ratio |-> pn.ratio]))
         ELSE LET shortened == penalties[index + 1].duration - pn.duration
              IN  InsertAt([penalties EXCEPT ![index + 1].duration = shortened],
                           index,
                           [duration |-> shortened - pn.duration,
                            ratio |-> (pn.ratio * penalties[index + 1].ratio) \div 1000])

\* Penalties::to_vec
PenToVec(p) ==
    MergePenalty(MergePenalty(MergePenalty(<<>>, 0, p.gybe), 0, p.sail_change),
                 0, p.tack)


\* ------------------------------------------------------------- polar

\* The polar of the model boat (a Polar value, input data of the router):
\* two sails (ids 1 and 2), speed per |TWA| in milli-cells per minute at the
\* wind speed of the model, winch penalties in seconds and per-mille.
PolarSails == <<1, 2>>

PolarSpeed(sail_id, twa) ==
    IF sail_id = 1
    THEN (CASE twa = 45 -> 80000 [] twa = 90 -> 80000 [] twa = 135 -> 40000
            [] OTHER -> 0)
    ELSE (CASE twa = 45 -> 40000 [] twa = 90 -> 40000 [] twa = 135 -> 80000
            [] OTHER -> 0)

\* Polar.auto_sail_change_tolerance, per-mille
AutoSailChangeTolerance == 1014

\* Polar.winch.{tack, gybe, sail_change}: std_timer_sec and std_ratio
WinchTack == [duration |-> 120, ratio |-> 500]
WinchGybe == [duration |-> 120, ratio |-> 500]
WinchSailChange == [duration |-> 60, ratio |-> 500]

\* Polar::get_penalty_values with BoatOptions::new() (winch and stamina off)
\* and no lws/hws bounds: the std timer and ratio of the case
GetPenaltyValues(penalty_case) == penalty_case

RECURSIVE SeqMax(_)
SeqMax(s) == IF s = <<>> THEN 0 ELSE Max2(Head(s), SeqMax(Tail(s)))

RECURSIVE SeqFilterBest(_)
SeqFilterBest(s) ==
    IF s = <<>> THEN <<>>
    ELSE IF Head(s).keep THEN <<[sail |-> Head(s).sail, speed |-> Head(s).speed]>>
                                \o SeqFilterBest(Tail(s))
    ELSE SeqFilterBest(Tail(s))

\* Polar::get_boat_speeds with all = false: one PolarResult per sail whose
\* speed is at least half the best one; the current sail inherits the best
\* speed when it is within auto_sail_change_tolerance of it.  A speed of 0
\* gives best = 0 or NaN and is filtered.
GetBoatSpeeds(heading, twd, current_sail) ==
    LET t0 == TwaOf(heading, twd)
        t1 == IF t0 < 0 THEN -t0 ELSE t0
        twa == IF t1 > 180 THEN 360 - t1 ELSE t1
        speeds == [i \in 1..Len(PolarSails) |-> PolarSpeed(PolarSails[i], twa)]
        boat_speed_max == SeqMax(speeds)
        res == [i \in 1..Len(PolarSails) |->
                  LET s == SailFromId(PolarSails[i])
                      boat_speed == speeds[i]
                  IN  IF SailEq(s, current_sail) /\ boat_speed > 0
                         /\ boat_speed_max * 1000 <= boat_speed * AutoSailChangeTolerance
                      THEN [sail |-> s, speed |-> boat_speed_max, keep |-> TRUE]
                      ELSE [sail |-> s, speed |-> boat_speed,
                            keep |-> boat_speed_max > 0
                                     /\ 2 * boat_speed >= boat_speed_max]]
    IN  SeqFilterBest(res)

\* a composition in which a manoeuvre leaves a pending penalty of its kind as
\* it is
AddPenaltiesPendingKept(penalties, previous_twa, new_twa, previous_sail, new_sail) ==
    LET fresh(pending, penalty_case) ==
            IF IsSome(pending) THEN pending ELSE Some(GetPenaltyValues(penalty_case))
        p1 == IF previous_twa * new_twa < 0 /\ Abs(new_twa) <= 90
              THEN [penalties EXCEPT !.tack = fresh(@, WinchTack)]
              ELSE IF previous_twa * new_twa < 0 /\ Abs(new_twa) > 90
              THEN [penalties EXCEPT !.gybe = fresh(@, WinchGybe)]
              ELSE penalties
    IN  IF ~SailEq(previous_sail, new_sail)
        THEN [p1 EXCEPT !.sail_change = fresh(@, WinchSailChange)]
        ELSE p1

\* Polar::add_penalties
AddPenalties(penalties, previous_twa, new_twa, previous_sail, new_sail) ==
    LET p1 == IF previous_twa * new_twa < 0 /\ Abs(new_twa) <= 90
              THEN [penalties EXCEPT !.tack = Some(GetPenaltyValues(WinchTack))]
              ELSE IF previous_twa * new_twa < 0 /\ Abs(new_twa) > 90
              THEN [penalties EXCEPT !.gybe = Some(GetPenaltyValues(WinchGybe))]
              ELSE penalties
    IN  IF ~SailEq(previous_sail, new_sail)
        THEN [p1 EXCEPT !.sail_change = Some(GetPenaltyValues(WinchSailChange))]
        ELSE p1

\* stamina_coef of Polar::tired at a wind speed of 10 kt, per-mille
StaminaCoef == 1250

\* Polar::tired, stamina in tenths of a point (1000 is full)
Tired(stamina, previous_twa, new_twa, previous_sail, new_sail) ==
    LET s1 == IF previous_twa * new_twa < 0
              THEN stamina - (100 * StaminaCoef) \div 1000
              ELSE stamina
        s2 == IF ~SailEq(previous_sail, new_sail)
              THEN s1 - (200 * StaminaCoef) \div 1000
              ELSE s1
    IN  Max2(s2, 0)

\* Polar::distance: (distance, remaining penalties, boat speed, ratio)
RECURSIVE PolarDistance(_, _, _)
PolarDistance(boat_speed, duration, penalties) ==
    IF duration = 0
    THEN [distance |-> 0, pen |-> penalties, speed |-> boat_speed, ratio |-> 1000]
    ELSE IF ~PenIsSome(penalties)
    THEN [distance |-> SpeedMulDuration(boat_speed, duration), pen |-> penalties,
          speed |-> boat_speed, ratio |-> 1000]
    ELSE LET m == MinPenaltyDuration(penalties) IN
         IF IsSome(m)
         THEN LET penalty_duration == Min2(Unwrap(m), duration)
                  nav == PenNavigate(penalties, penalty_duration)
                  rest == PolarDistance(boat_speed, duration - penalty_duration, nav.pen)
                  slowed == SpeedMulRatio(boat_speed, nav.ratio)
              IN  [distance |-> SpeedMulDuration(slowed, penalty_duration) + rest.distance,
                   pen |-> rest.pen, speed |-> slowed, ratio |-> nav.ratio]
         ELSE [distance |-> SpeedMulDuration(boat_speed, duration), pen |-> penalties,
               speed |-> boat_speed, ratio |-> 1000]

\* Polar::duration: (duration, remaining penalties, boat speed, ratio)
RECURSIVE PolarDuration(_, _, _)
PolarDuration(boat_speed, distance, penalties) ==
    LET penalties_vec == PenToVec(penalties) IN
    IF Len(penalties_vec) > 0
    THEN LET new_boat_speed == SpeedMulRatio(boat_speed, penalties_vec[1].ratio)
             covered == SpeedMulDuration(new_boat_speed, penalties_vec[1].duration)
         IN  IF distance <= covered
             THEN LET d == DistanceDivSpeed(distance, new_boat_speed)
                  IN  [duration |-> d, pen |-> PenSub(penalties, d),
                       speed |-> new_boat_speed, ratio |-> penalties_vec[1].ratio]
             ELSE LET rest == PolarDuration(boat_speed, distance - covered,
                                            PenSub(penalties, penalties_vec[1].duration))
                  IN  [duration |-> penalties_vec[1].duration + rest.duration,
                       pen |-> rest.pen, speed |-> new_boat_speed,
                       ratio |-> penalties_vec[1].ratio]
    ELSE [duration |-> DistanceDivSpeed(distance, boat_speed), pen |-> penalties,
          speed |-> boat_speed, ratio |-> 1000]


\* ------------------------------------------------------------- maps

EmptyMap == [x \in {} |-> None]
MapPut(f, k, v) == [x \in (DOMAIN f) \cup {k} |-> IF x = k THEN v ELSE f[x]]
MapRestrict(f, S) == [x \in (DOMAIN f) \cap S |-> f[x]]

\* ------------------------------------------------------------- race buoys

\* race::Buoy wrapped by echeneis::Buoy.  A buoy is a record
\*   [kind, name, destination, departure, port, starboard, radius, to_avoid]
\* kind is "door", "waypoint" or "zone"; radius is in milli-cells; to_avoid
\* is a sequence of triangles <<t0, t1, t2>>.

\* Buoy::departure
BuoyDeparture(b) == IF b.kind = "door" THEN b.departure ELSE b.destination

\* Buoy::destination
BuoyDestination(b) == b.destination

\* Buoy::distance
BuoyDistance(b, to) ==
    IF b.kind = "zone" THEN DistanceTo(b.destination, to) - b.radius
    ELSE DistanceTo(b.destination, to)

\* one triangle of Buoy::is_to_avoid
InTriangle(t, point) ==
    LET as_x == Lat(point) - Lat(t[1])
        as_y == Lon(point) - Lon(t[1])
        s_ab == (Lat(t[2]) - Lat(t[1])) * as_y - (Lon(t[2]) - Lon(t[1])) * as_x > 0
    IN  /\ ~(((Lat(t[3]) - Lat(t[1])) * as_y - (Lon(t[3]) - Lon(t[1])) * as_x > 0) = s_ab)
        /\ ~(((Lat(t[3]) - Lat(t[2])) * (Lon(point) - Lon(t[2]))
               - (Lon(t[3]) - Lon(t[2])) * (Lat(point) - Lat(t[2])) > 0) # s_ab)

\* Buoy::is_to_avoid
IsToAvoid(b, point) == \E i \in 1..Len(b.to_avoid) : InTriangle(b.to_avoid[i], point)

\* race::Zone::is_in
ZoneIsIn(b, point) == DistanceTo(b.destination, point) <= b.radius

\* ------------------------------------------------------------- positions

NbVariants == 8
Slots == 0..(NbVariants - 1)

\* one az unit of the model, in degrees: az = round(bearing / AzUnit * factor)
AzUnit == 90

\* (az * factor).round() as i32
AzKey(bearing, factor) == RoundDiv(bearing * factor, AzUnit)

\* an addition that leaves the absolute duration where it was
NavDurationAddRelative(nd, d) == [absolute |-> nd.absolute, relative |-> d]

\* impl Add<Duration> for NavDuration
NavDurationAdd(nd, d) == [absolute |-> nd.absolute + d, relative |-> d]

\* Alternative::empty
EmptyAlternative == [s \in Slots |-> None]

\* a merge that keeps the last position offered
MergeFastLast(alt, pos) == [alt EXCEPT ![0] = Some(pos)]

\* Alternative::merge_fast: every sail goes to slot 0
MergeFast(alt, pos) ==
    LET sail_index == 0
        renew == IF ~IsSome(alt[sail_index]) THEN TRUE
                 ELSE Unwrap(alt[sail_index]).from_dist < pos.from_dist
    IN  IF renew THEN [alt EXCEPT ![sail_index] = Some(pos)] ELSE alt

\* Position::better_than
BetterThan(self, other) == self.from_dist > other.from_dist

\* Alternative::merge (used by Buoy::reach)
AltMerge(alt, pos) ==
    LET sail_index == 0
    IN  IF ~IsSome(alt[sail_index]) \/ BetterThan(pos, Unwrap(alt[sail_index]))
        THEN [alt EXCEPT ![sail_index] = Some(pos)] ELSE alt

\* Alternative::merge_all
MergeAll(self, alternative) ==
    [s \in Slots |->
        IF IsSome(alternative[s])
           /\ (~IsSome(self[s]) \/ BetterThan(Unwrap(alternative[s]), Unwrap(self[s])))
        THEN alternative[s] ELSE self[s]]

\* Alternative::merge_all_by_duration (NavDuration compares by absolute)
MergeAllByDuration(self, alternative) ==
    [s \in Slots |->
        IF IsSome(alternative[s])
           /\ ~(IsSome(self[s])
                /\ Unwrap(self[s]).duration.absolute
                     <= Unwrap(alternative[s]).duration.absolute)
        THEN alternative[s] ELSE self[s]]

\* Alternative::best: the first slot holding the largest from_dist
AltBest(alt) ==
    LET full == {s \in Slots : IsSome(alt[s])}
    IN  IF full = {} THEN None
        ELSE LET top == CHOOSE s \in full :
                          /\ \A u \in full : Unwrap(alt[u]).from_dist <= Unwrap(alt[s]).from_dist
                          /\ \A u \in full : u < s =>
                                Unwrap(alt[u]).from_dist < Unwrap(alt[s]).from_dist
             IN  alt[top]

\* Nav::from
NavFrom(absolute_duration) ==
    [absolute_duration |-> absolute_duration, min |-> None,
     alternatives |-> EmptyMap, reached_by_way |-> FALSE, crossed |-> FALSE]

\* a size that counts the az keys, not the variants they hold
NavSizeOfKeys(nav) == Cardinality(DOMAIN nav.alternatives)

\* Nav::size
NavSize(nav) ==
    Cardinality({<<az, s>> \in (DOMAIN nav.alternatives) \X Slots :
                    IsSome(nav.alternatives[az][s])})

\* every Position a Nav holds
NavPositions(nav) ==
    {Unwrap(nav.alternatives[az][s]) :
        <<az, s>> \in {x \in (DOMAIN nav.alternatives) \X Slots :
                          IsSome(nav.alternatives[x[1]][x[2]])}}


\* ------------------------------------------------------------- expansion

\* winds.interpolate(point): the wind of the model is the same everywhere
Wind == [direction |-> 0]

\* the twa loop of way2 (for twa in -180..180), thinned to the compass
TwaSweep == <<-180, -135, -90, -45, 0, 45, 90, 135>>

RECURSIVE SeqConcat(_)
SeqConcat(ss) == IF ss = <<>> THEN <<>> ELSE Head(ss) \o SeqConcat(Tail(ss))

\* keeps the Some entries of a sequence of options
RECURSIVE SeqSomes(_)
SeqSomes(s) ==
    IF s = <<>> THEN <<>>
    ELSE IF IsSome(Head(s)) THEN <<Unwrap(Head(s))>> \o SeqSomes(Tail(s))
    ELSE SeqSomes(Tail(s))

\* i32::MAX, the value `as i32` gives for +inf
I32Max == 2147483647

\* jump2, lines 392-395: the duration of the jump.  num_minutes() truncates
\* both durations to whole minutes before the f64 division.  With a step
\* below one minute the divisor is 0: a penalty below one minute gives
\* 0/0 = NaN, which `as i32` casts to 0; a longer penalty gives +inf, cast to
\* i32::MAX.
JumpDuration(duration, pen_duration) ==
    IF pen_duration > duration
    THEN IF duration \div SecPerMin = 0
         THEN IF pen_duration \div SecPerMin = 0 THEN 0 ELSE duration * I32Max
         ELSE duration * CeilDiv(pen_duration \div SecPerMin, duration \div SecPerMin)
    ELSE duration

\* Echeneis::jump2: the (az, Position) pairs one heading produces.  The steps
\* of the source follow one another as local operators, last step first.
Jump2(lands, start, from, to, heading, duration, wind, factor) ==
    LET built(polar_result, penalties, jump_duration, d, point, az) ==
            IF point \in lands THEN None
            ELSE Some(<<az,
                 [az |-> az,
                  point |-> point,
                  from_dist |-> DistanceTo(start, point),
                  dist_to |-> BuoyDistance(to, point),
                  duration |-> NavDurationAdd(from.duration, jump_duration),
                  distance |-> d.distance,
                  reached |-> None,
                  settings |-> [heading |-> heading, sail |-> polar_result.sail],
                  status |-> [boat_speed |-> d.speed, wind |-> wind,
                              penalties |-> penalties],
                  previous |-> Some(from),
                  remaining_penalties |-> d.pen]>>)
        placed(polar_result, penalties, jump_duration, d, point) ==
            built(polar_result, penalties, jump_duration, d, point,
                  AzKey(HeadingTo(start, point), factor))
        moved(polar_result, penalties, jump_duration, d) ==
            placed(polar_result, penalties, jump_duration, d,
                   Destination(from.point, HeadingOf(heading, wind.direction),
                               d.distance))
        timed(polar_result, penalties, jump_duration) ==
            moved(polar_result, penalties, jump_duration,
                  PolarDistance(polar_result.speed, jump_duration, penalties))
        penalised(polar_result, penalties, pen_duration) ==
            timed(polar_result, penalties,
                  JumpDuration(duration, pen_duration))
        added(polar_result, penalties) ==
            penalised(polar_result, penalties, PenDuration(penalties))
        one(polar_result, twa) ==
            added(polar_result,
                  AddPenalties(from.remaining_penalties,
                               TwaOf(from.settings.heading, from.status.wind.direction),
                               twa, from.settings.sail, polar_result.sail))
        all(twa, speeds) ==
            IF Abs(twa) < 30 \/ Abs(twa) > 160 THEN <<>>
            ELSE SeqSomes([i \in 1..Len(speeds) |-> one(speeds[i], twa)])
    IN  all(TwaOf(heading, wind.direction),
            GetBoatSpeeds(heading, wind.direction, from.settings.sail))

\* the first entry of smallest duration (stable sort_by, then next())
RECURSIVE FirstMinDuration(_)
FirstMinDuration(results) ==
    IF Len(results) = 1 THEN results[1]
    ELSE LET rest == FirstMinDuration(Tail(results))
         IN  IF results[1][2].duration.absolute <= rest[2].duration.absolute
             THEN results[1] ELSE rest

\* Echeneis::buoy_reached: the direct aim at the buoy
BuoyReached(start, from, to, duration, wind, factor) ==
    LET built(polar_result, distance, heading, penalties, d, az, dest) ==
            IF 2 * d.duration <= 3 * duration
            THEN Some(<<az,
                 [az |-> az,
                  point |-> dest,
                  from_dist |-> DistanceTo(start, dest),
                  dist_to |-> 0,
                  duration |-> NavDurationAdd(from.duration, d.duration),
                  distance |-> distance,
                  reached |-> IF to.kind = "waypoint" THEN Some(to.name) ELSE None,
                  settings |-> [heading |-> heading, sail |-> polar_result.sail],
                  status |-> [boat_speed |-> d.speed, wind |-> wind,
                              penalties |-> penalties],
                  previous |-> Some(from),
                  remaining_penalties |-> d.pen]>>)
            ELSE None
        timed(polar_result, distance, heading, penalties, dest) ==
            built(polar_result, distance, heading, penalties,
                  PolarDuration(polar_result.speed, distance, penalties),
                  AzKey(HeadingTo(start, dest), factor), dest)
        one(polar_result, distance, heading, dest) ==
            timed(polar_result, distance, heading,
                  AddPenalties(from.remaining_penalties,
                               TwaOf(from.settings.heading, from.status.wind.direction),
                               TwaOf(heading, wind.direction),
                               from.settings.sail, polar_result.sail),
                  dest)
        first(results) ==
            IF results = <<>> THEN None ELSE Some(FirstMinDuration(results))
        all(distance, heading, speeds, dest) ==
            first(SeqSomes([i \in 1..Len(speeds) |->
                              one(speeds[i], distance, heading, dest)]))
        aimed(distance, heading, dest) ==
            all(distance, heading,
                GetBoatSpeeds(heading, wind.direction, from.settings.sail), dest)
        aim(dest) ==
            aimed(DistanceTo(from.point, dest), HEADING(HeadingTo(from.point, dest)),
                  dest)
    IN  IF from.dist_to > from.distance * 10 THEN None
        ELSE aim(BuoyDestination(to))

\* the body of the twa loop of way2 for one (az, pos): the default Nav takes
\* the positions whose relative duration is the step, the others go to the
\* Nav of their absolute duration
Way2Put(acc, az, pos, duration) ==
    LET upd(nav) ==
            [nav EXCEPT
               !.min = IF ~IsSome(nav.min) \/ Unwrap(nav.min) > pos.dist_to
                       THEN Some(pos.dist_to) ELSE nav.min,
               !.alternatives =
                   MapPut(nav.alternatives, az,
                          MergeFast(IF az \in DOMAIN nav.alternatives
                                    THEN nav.alternatives[az] ELSE EmptyAlternative,
                                    pos))]
        t == pos.duration.absolute
    IN  IF pos.duration.relative = duration
        THEN [acc EXCEPT !.default_nav = upd(acc.default_nav)]
        ELSE [acc EXCEPT !.navs =
                 MapPut(acc.navs, t,
                        upd(IF t \in DOMAIN acc.navs THEN acc.navs[t] ELSE NavFrom(t)))]

RECURSIVE Way2Fold(_, _, _)
Way2Fold(acc, positions, duration) ==
    IF positions = <<>> THEN acc
    ELSE Way2Fold(Way2Put(acc, positions[1][1], positions[1][2], duration),
                  Tail(positions), duration)

\* stable sort of Navs by absolute_duration (insertion from the left)
RECURSIVE SortNavs(_)
SortNavs(navs) ==
    IF Len(navs) <= 1 THEN navs
    ELSE LET rest == SortNavs(Tail(navs))
             h == Head(navs)
             k == Cardinality({i \in 1..Len(rest) :
                                  rest[i].absolute_duration < h.absolute_duration})
         IN  SubSeq(rest, 1, k) \o <<h>> \o SubSeq(rest, k + 1, Len(rest))

\* the values of a map keyed by integers, in key order
MapValues(f) ==
    LET keys == SortedSeq(DOMAIN f) IN [i \in 1..Len(keys) |-> f[keys[i]]]

\* Echeneis::way2: the Navs one frontier position expands to
Way2(lands, start, from, to, duration, wind, factor) ==
    LET sorted(acc) ==
            IF DOMAIN acc.navs # {}
            THEN SortNavs(MapValues(acc.navs) \o <<acc.default_nav>>)
            ELSE <<acc.default_nav>>
        swept(positions) ==
            sorted(Way2Fold([default_nav |->
                               NavFrom(NavDurationAdd(from.duration, duration).absolute),
                             navs |-> EmptyMap],
                            positions, duration))
        aimed(reached) ==
            IF IsSome(reached)
            THEN <<[absolute_duration |-> Unwrap(reached)[2].duration.absolute,
                    min |-> None,
                    alternatives |-> MapPut(EmptyMap, -1,
                                            MergeFast(EmptyAlternative,
                                                      Unwrap(reached)[2])),
                    reached_by_way |-> TRUE, crossed |-> FALSE]>>
            ELSE swept(SeqConcat([i \in 1..Len(TwaSweep) |->
                            Jump2(lands, start, from, to, TWA(TwaSweep[i]), duration,
                                  wind, factor)]))
    IN  aimed(BuoyReached(start, from, to, duration, wind, factor))


\* ------------------------------------------------------------- crossing, reachers

\* Buoy::crossed
Crossed(b, pos) ==
    IF ~IsSome(pos.previous) THEN FALSE
    ELSE LET src == Unwrap(pos.previous) IN
    IF b.kind = "door"
    THEN LET t == HeadingTo(b.port, b.starboard)
             a == HeadingTo(src.point, b.port)
             alpha == 180 + a - t
             bb == HeadingTo(src.point, b.starboard)
             beta == bb - t
             heading == HeadingOf(pos.settings.heading, pos.status.wind.direction)
         IN  IF bb < t /\ (\/ (a < bb /\ heading > a /\ heading < bb)
                           \/ (a > bb /\ (heading > a \/ heading < bb)))
             THEN LET a2 == HeadingTo(pos.point, b.port)
                      alpha2 == IF a2 > 180 THEN 180 + a2 - t - 360 ELSE 180 + a2 - t
                      b2 == HeadingTo(pos.point, b.starboard)
                      beta2 == b2 - t
                  IN  alpha * alpha2 < 0 /\ beta * beta2 < 0
             ELSE FALSE
    ELSE IF b.kind = "zone"
    THEN ~ZoneIsIn(b, src.point) /\ ZoneIsIn(b, pos.point)
    ELSE FALSE

\* a rewrite that leaves the position as it was
PosReachedNot(pos, b) == pos

\* Position::reached
PosReached(pos, b) == [pos EXCEPT !.reached = Some(b.name)]

\* a registration that always uses the last reacher Nav, whatever its
\* absolute duration
ReachInLast(reachers, b, pos, factor) ==
    IF b.kind = "waypoint" THEN reachers
    ELSE
    LET pushed == IF reachers = <<>>
                  THEN Append(reachers, NavFrom(pos.duration.absolute))
                  ELSE reachers
        n == Len(pushed)
        az == AzKey(HeadingTo(BuoyDeparture(b), pos.point), factor)
        alternative == IF az \in DOMAIN pushed[n].alternatives
                       THEN pushed[n].alternatives[az] ELSE EmptyAlternative
        reacher == [pos EXCEPT !.az = az,
                               !.from_dist = DistanceTo(BuoyDeparture(b), pos.point),
                               !.dist_to = 0,
                               !.distance = 0,
                               !.reached = None]
    IN  [pushed EXCEPT ![n].alternatives = MapPut(@, az, AltMerge(alternative, reacher))]

\* Buoy::reach: registers pos in the last reacher Nav (a new one when its
\* absolute duration differs); nothing for a waypoint
Reach(reachers, b, pos, factor) ==
    IF b.kind = "waypoint" THEN reachers
    ELSE
    LET pushed == IF reachers = <<>>
                     \/ reachers[Len(reachers)].absolute_duration # pos.duration.absolute
                  THEN Append(reachers, NavFrom(pos.duration.absolute))
                  ELSE reachers
        n == Len(pushed)
        az == AzKey(HeadingTo(BuoyDeparture(b), pos.point), factor)
        alternative == IF az \in DOMAIN pushed[n].alternatives
                       THEN pushed[n].alternatives[az] ELSE EmptyAlternative
        reacher == [az |-> az,
                    point |-> pos.point,
                    from_dist |-> DistanceTo(BuoyDeparture(b), pos.point),
                    dist_to |-> 0,
                    duration |-> pos.duration,
                    distance |-> 0,
                    reached |-> None,
                    settings |-> pos.settings,
                    status |-> pos.status,
                    previous |-> pos.previous,
                    remaining_penalties |-> pos.remaining_penalties]
    IN  [pushed EXCEPT ![n].alternatives = MapPut(@, az, AltMerge(alternative, reacher))]

\* EcheneisConfig.accuracy as the router is built in phtheirichthys.rs
Accuracy == 1

\* the distance between two frontier points get_factor derives from the polar
\* speed at TWA 90 with sail 0, in milli-cells.  The source takes three hours
\* of sailing, and a leg gets a factor above the accuracy once it is some
\* thirty times longer; the model takes a fortieth of a minute of sailing, so
\* that the legs of a few steps it explores get the factors long legs get.
DistBetweenPoints == PolarSpeed(SailFromIndex(0).id, 90) \div 40

\* Echeneis::get_factor: accuracy + round((PI/180) / asin(clamp(dbp/dist))),
\* asin(x) taken as x below 1 and as PI/2 at the clamp, PI as 355/113
GetFactor(from, to) ==
    LET dist == BuoyDistance(to, from) IN
    IF dist = 0 \/ Abs(dist) <= DistBetweenPoints
    THEN Accuracy
    ELSE Accuracy + RoundDiv(355 * dist, 113 * 180 * DistBetweenPoints)

\* ------------------------------------------------------------- shared map

\* the locked section of navigate_from_alternative for one way_nav
MergeWayNav(navs, way_nav) ==
    LET t == way_nav.absolute_duration IN
    IF way_nav.reached_by_way
    THEN LET kept == MapRestrict(navs, {d \in DOMAIN navs : d <= t})
             nav0 == IF t \in DOMAIN kept THEN kept[t] ELSE NavFrom(t)
             nav1 == IF ~nav0.reached_by_way
                     THEN [nav0 EXCEPT !.alternatives = EmptyMap,
                                       !.reached_by_way = TRUE,
                                       !.min = None]
                     ELSE nav0
             prev == IF -1 \in DOMAIN nav1.alternatives
                     THEN nav1.alternatives[-1] ELSE EmptyAlternative
         IN  MapPut(kept, t,
                    [nav1 EXCEPT !.alternatives =
                        MapPut(@, -1, MergeAllByDuration(prev, way_nav.alternatives[-1]))])
    ELSE LET nav0 == IF t \in DOMAIN navs THEN navs[t] ELSE NavFrom(t)
             azs == (DOMAIN nav0.alternatives) \cup (DOMAIN way_nav.alternatives)
         IN  IF nav0.reached_by_way THEN MapPut(navs, t, nav0)
             ELSE MapPut(navs, t,
                    [nav0 EXCEPT
                       !.min = IF ~IsSome(nav0.min) THEN way_nav.min
                               ELSE IF ~IsSome(way_nav.min) THEN nav0.min
                               ELSE Some(Min2(Unwrap(nav0.min), Unwrap(way_nav.min))),
                       !.alternatives =
                           [az \in azs |->
                              IF az \in DOMAIN way_nav.alternatives
                              THEN MergeAll(IF az \in DOMAIN nav0.alternatives
                                            THEN nav0.alternatives[az]
                                            ELSE EmptyAlternative,
                                            way_nav.alternatives[az])
                              ELSE nav0.alternatives[az]]])

RECURSIVE MergeWayNavs(_, _)
MergeWayNavs(navs, way_navs) ==
    IF way_navs = <<>> THEN navs
    ELSE MergeWayNavs(MergeWayNav(navs, Head(way_navs)), Tail(way_navs))

\* the Some entries of an Alternative, in slot order
Variants(alternative) ==
    SeqSomes([i \in 1..NbVariants |-> alternative[i - 1]])

\* navigate_from_alternative: the way_navs one alternative of the frontier
\* hands to the shared map, in the order it merges them
WayNavsOf(lands, start, alternative, to, duration, factor) ==
    LET vs == Variants(alternative)
    IN  SeqConcat([i \in 1..Len(vs) |->
                      Way2(lands, start, vs[i], to, duration, Wind, factor)])


\* ------------------------------------------------------------- navigate2

\* a fresh entry of max: [Distance::zero(); 8]
ZeroMax == [s \in Slots |-> 0]

\* from_dist * 1.001, kept in thousandths of a milli-cell
HighWater(from_dist) == from_dist * 1001

\* the slot loop of the post-processing of navigate2 (lines 658-699) for one
\* alternative, from slot s on; acc = [alt, max, size]
RECURSIVE FilterSlots(_, _, _, _, _, _, _)
FilterSlots(acc, s, az, to, max_radius, double_min, best_from_dist) ==
    IF s >= NbVariants THEN acc
    ELSE IF ~IsSome(acc.alt[s])
    THEN FilterSlots(acc, s + 1, az, to, max_radius, double_min, best_from_dist)
    ELSE
    LET pos == Unwrap(acc.alt[s])
        drop == \/ IsToAvoid(to, pos.point)
                \/ pos.from_dist + pos.dist_to > max_radius
                \/ (IsSome(double_min) /\ acc.size > 25
                      /\ pos.dist_to > Unwrap(double_min))
                \/ pos.from_dist + SpeedMulDuration(pos.status.boat_speed, 300 * SecPerMin)
                     < best_from_dist
        next == IF drop
                THEN [acc EXCEPT !.alt[s] = None, !.size = @ - 1]
                ELSE [acc EXCEPT !.max =
                        MapPut(acc.max, az,
                               [(IF az \in DOMAIN acc.max THEN acc.max[az] ELSE ZeroMax)
                                  EXCEPT ![s] = HighWater(pos.from_dist)])]
    IN  FilterSlots(next, s + 1, az, to, max_radius, double_min, best_from_dist)

\* the alternative loop of the post-processing (lines 642-701), over the az
\* keys in order; acc = [alts, max, size]
RECURSIVE FilterAlternatives(_, _, _, _, _)
FilterAlternatives(acc, azs, to, max_radius, double_min) ==
    IF azs = <<>> THEN acc
    ELSE
    LET az == Head(azs)
        alternative == acc.alts[az]
        best == AltBest(alternative)
        best_from_dist == IF IsSome(best) THEN Unwrap(best).from_dist ELSE 0
        best_sail == IF IsSome(best) THEN Unwrap(best).settings.sail.index ELSE 0
        nb == Cardinality({s \in Slots : IsSome(alternative[s])})
        regress == az \in DOMAIN acc.max
                   /\ best_from_dist * 1000 < acc.max[az][best_sail]
        kept == FilterSlots([alt |-> alternative, max |-> acc.max, size |-> acc.size],
                            0, az, to, max_radius, double_min, best_from_dist)
    IN  IF regress
        THEN FilterAlternatives([acc EXCEPT !.alts[az] = EmptyAlternative,
                                            !.size = @ - nb],
                                Tail(azs), to, max_radius, double_min)
        ELSE FilterAlternatives([alts |-> [acc.alts EXCEPT ![az] = kept.alt],
                                 max |-> kept.max, size |-> kept.size],
                                Tail(azs), to, max_radius, double_min)

\* the walk over at most 10 ancestors (lines 733-745)
RECURSIVE ParentReached(_, _, _)
ParentReached(p, name, n) ==
    IF n = 0 \/ ~IsSome(p.previous) THEN FALSE
    ELSE IF Unwrap(p.previous).reached = Some(name) THEN TRUE
    ELSE ParentReached(Unwrap(p.previous), name, n - 1)

\* the (az, slot) pairs of a map of alternatives that hold a position, in
\* iteration order
RECURSIVE HeldSeq(_, _)
HeldSeq(alts, azs) ==
    IF azs = <<>> THEN <<>>
    ELSE LET az == Head(azs)
         IN  SeqSomes([i \in 1..NbVariants |->
                          IF IsSome(alts[az][i - 1]) THEN Some(<<az, i - 1>>) ELSE None])
             \o HeldSeq(alts, Tail(azs))

\* to.reach for every position that crossed or descends from one that did
\* (lines 729-754)
RECURSIVE ReachAll(_, _, _, _, _)
ReachAll(reachers, alts, held, to, factor) ==
    IF held = <<>> THEN reachers
    ELSE LET pos == Unwrap(alts[Head(held)[1]][Head(held)[2]])
             hit == pos.reached = Some(to.name) \/ ParentReached(pos, to.name, 10)
         IN  ReachAll(IF hit THEN Reach(reachers, to, pos, factor) ELSE reachers,
                      alts, Tail(held), to, factor)

\* navigate2 after navigate_from_all (lines 608-759): sorts the shared map and
\* post-processes its first Nav; gives [navs, reachers, max]
NavigatePost(shared, to, reachers, factor, max, max_radius) ==
    LET hits(alts, az, s) ==
            IsSome(alts[az][s]) /\ Crossed(to, Unwrap(alts[az][s]))
        reachedBy(navs, best) ==
            [navs |-> navs,
             reachers |-> IF to.kind \in {"door", "zone"} /\ reachers = <<>>
                             /\ IsSome(best)
                          THEN Reach(reachers, to, Unwrap(best), factor)
                          ELSE reachers,
             max |-> max]
        done(navs, new_max, marked, crossed) ==
            [navs |-> [navs EXCEPT ![1].alternatives = marked,
                                   ![1].crossed = crossed],
             reachers |-> ReachAll(reachers, marked,
                                   HeldSeq(marked, SortedSeq(DOMAIN marked)),
                                   to, factor),
             max |-> new_max]
        mark(navs, new_max, retained) ==
            done(navs, new_max,
                 [az \in DOMAIN retained |->
                    [s \in Slots |->
                       IF hits(retained, az, s)
                       THEN Some(PosReached(Unwrap(retained[az][s]), to))
                       ELSE retained[az][s]]],
                 \E az \in DOMAIN retained : \E s \in Slots : hits(retained, az, s))
        retain(navs, filtered) ==
            mark(navs, filtered.max,
                 MapRestrict(filtered.alts,
                    {az \in DOMAIN filtered.alts :
                        \E s \in Slots : IsSome(filtered.alts[az][s])}))
        first(navs, nav) ==
            IF nav.reached_by_way
            THEN reachedBy(navs, IF -1 \in DOMAIN nav.alternatives
                                 THEN AltBest(nav.alternatives[-1]) ELSE None)
            ELSE retain(navs,
                        FilterAlternatives(
                            [alts |-> nav.alternatives, max |-> max,
                             size |-> NavSize(nav)],
                            SortedSeq(DOMAIN nav.alternatives), to, max_radius,
                            IF IsSome(nav.min) THEN Some(Unwrap(nav.min) * 2)
                            ELSE None))
        sorted(navs) ==
            IF navs = <<>> THEN [navs |-> navs, reachers |-> reachers, max |-> max]
            ELSE first(navs, navs[1])
    IN  sorted(MapValues(shared))


\* ------------------------------------------------------------- route

\* race::Buoy::is_validated
IsValidated(b) == b.validated

\* get_buoys: the buoys of the race not validated yet
GetBuoys(race) == SelectSeq(race, LAMBDA b : ~IsValidated(b))

\* max_duration of route
max_duration == 20 * 24 * 3600

\* impl From<RouteRequest> for Position
PositionFromRequest(request) ==
    [az |-> 0,
     point |-> request.from,
     from_dist |-> 0,
     dist_to |-> 0,
     duration |-> [absolute |-> 0, relative |-> 0],
     distance |-> 0,
     reached |-> None,
     settings |-> request.boat_settings,
     status |-> request.status,
     previous |-> None,
     remaining_penalties |-> request.status.penalties]

\* impl From<RouteRequest> for Alternative
AlternativeFromRequest(request) ==
    [EmptyAlternative EXCEPT ![request.boat_settings.sail.index] =
        Some(PositionFromRequest(request))]

\* a selection that also takes an entry whose horizon equals the duration
StepForReached(steps, duration) ==
    LET later == {i \in 1..Len(steps) : steps[i][1] >= duration}
    IN  IF later = {} THEN steps[Len(steps)][2]
        ELSE steps[CHOOSE i \in later : \A j \in later : i <= j][2]

\* the step of the first (d, step) with d > duration, else of the last one
StepFor(steps, duration) ==
    LET later == {i \in 1..Len(steps) : steps[i][1] > duration}
    IN  IF later = {} THEN steps[Len(steps)][2]
        ELSE steps[CHOOSE i \in later : \A j \in later : i <= j][2]

\* the pop_front loop over future_navs (lines 114-120)
RECURSIVE DropBefore(_, _)
DropBefore(future_navs, t) ==
    IF future_navs # <<>> /\ Head(future_navs).absolute_duration < t
    THEN DropBefore(Tail(future_navs), t)
    ELSE future_navs

\* navs.into_iter().map(|nav| (nav.absolute_duration, nav)).collect()
RECURSIVE CollectByDuration(_)
CollectByDuration(navs) ==
    IF navs = <<>> THEN EmptyMap
    ELSE MapPut(CollectByDuration(SubSeq(navs, 1, Len(navs) - 1)),
                navs[Len(navs)].absolute_duration, navs[Len(navs)])

\* the positions of a Nav in iteration order
NavPositionSeq(nav) ==
    LET held == HeldSeq(nav.alternatives, SortedSeq(DOMAIN nav.alternatives))
    IN  [i \in 1..Len(held) |-> Unwrap(nav.alternatives[held[i][1]][held[i][2]])]

\* an update that takes every position in turn, nearer or not
RECURSIVE BestFoldLast(_, _)
BestFoldLast(acc, positions) ==
    IF positions = <<>> THEN acc
    ELSE BestFoldLast([best |-> Some(Head(positions)),
                       best_dist_to |-> Head(positions).dist_to],
                      Tail(positions))

\* the update of the overall best result (lines 170-192); acc = [best, best_dist_to]
RECURSIVE BestFold(_, _)
BestFold(acc, positions) ==
    IF positions = <<>> THEN acc
    ELSE LET pos == Head(positions)
         IN  BestFold(IF ~(IsSome(acc.best) /\ pos.dist_to >= acc.best_dist_to)
                      THEN [best |-> Some(pos), best_dist_to |-> pos.dist_to]
                      ELSE acc,
                      Tail(positions))

\* one reacher Nav rebuilt for the next leg (lines 229-243): az rescaled,
\* dist_to recomputed, a colliding key replaced by insert
RECURSIVE RebuildInto(_, _, _, _, _, _)
RebuildInto(nav, previous, azs, previous_factor, factor, destination) ==
    IF azs = <<>> THEN nav
    ELSE LET az == RoundDiv(Head(azs) * factor, previous_factor)
             alternative == [s \in Slots |->
                 IF IsSome(previous.alternatives[Head(azs)][s])
                 THEN LET p == Unwrap(previous.alternatives[Head(azs)][s])
                      IN  Some([p EXCEPT !.dist_to = BuoyDistance(destination, p.point)])
                 ELSE None]
         IN  RebuildInto([nav EXCEPT !.alternatives = MapPut(@, az, alternative)],
                         previous, Tail(azs), previous_factor, factor, destination)

\* future navs generated from reachers[1..] (lines 217-249)
RECURSIVE RebuildNavs(_, _, _, _, _)
RebuildNavs(navs, later, previous_factor, factor, destination) ==
    IF later = <<>> THEN navs
    ELSE LET previous == Head(later)
             t == previous.absolute_duration
             nav == IF t \in DOMAIN navs THEN navs[t] ELSE NavFrom(t)
         IN  RebuildNavs(MapPut(navs, t,
                             RebuildInto(nav, previous,
                                         SortedSeq(DOMAIN previous.alternatives),
                                         previous_factor, factor, destination)),
                         Tail(later), previous_factor, factor, destination)

\* max rebuilt from the first reacher Nav (lines 254-261)
RECURSIVE MaxFrom(_, _, _)
MaxFrom(max, nav, held) ==
    IF held = <<>> THEN max
    ELSE LET az == Head(held)[1]
             sl == Head(held)[2]
         IN  MaxFrom(MapPut(max, az,
                        [(IF az \in DOMAIN max THEN max[az] ELSE ZeroMax)
                           EXCEPT ![sl] = HighWater(Unwrap(nav.alternatives[az][sl]).from_dist)]),
                     nav, Tail(held))

\* the waypoints pushed by the walk over previous (lines 289-332), best first
RECURSIVE WayChain(_)
WayChain(next) ==
    IF ~IsSome(next.previous) THEN <<>>
    ELSE LET last == Unwrap(next.previous)
         IN  <<[from |-> last.point, duration |-> last.duration.absolute,
                way_duration |-> next.duration.relative,
                boat_settings |-> next.settings]>>
             \o WayChain(last)

\* way.sort_by(duration): stable
RECURSIVE SortWay(_)
SortWay(way) ==
    IF Len(way) <= 1 THEN way
    ELSE LET rest == SortWay(Tail(way))
             h == Head(way)
             k == Cardinality({i \in 1..Len(rest) : rest[i].duration < h.duration})
         IN  SubSeq(rest, 1, k) \o <<h>> \o SubSeq(rest, k + 1, Len(rest))

\* the way of the result (lines 287-337)
BuildWay(last) ==
    SortWay(<<[from |-> last.point, duration |-> last.duration.absolute,
               way_duration |-> 0, boat_settings |-> None]>>
            \o WayChain(last))


\* ------------------------------------------------------------- state

VARIABLES
    race,             \* race.buoys
    lands,            \* the cells for which LandsProvider::is_land holds
    request,          \* the RouteRequest
    routing_timeout,  \* Option<Duration> of route
    rayon,            \* TRUE when built with the rayon feature
    expired,          \* Utc::now() > start_routing + timeout
    pc,               \* position of route: "buoy", "loop", "merge", "way", "done"
    buoys,            \* the buoys the iterator of route still holds
    destination,      \* Option: the buoy of the current leg
    reachers,         \* destination.reachers
    from,
    froms,
    duration,
    best,
    best_dist_to,
    success,
    reached,
    future_navs,
    max,
    max_radius,
    factor,
    step,
    navs,             \* the shared map of navigate2
    pending,          \* az key of froms -> way_navs not merged yet
    nb_navigate,      \* navigate2 calls so far
    result,           \* Option: what route returned
    call,             \* the function call under test: its name and arguments
    ret               \* Option: what that call returned

vars == <<race, lands, request, routing_timeout, rayon, expired, pc, buoys,
          destination, reachers, from, froms, duration, best, best_dist_to,
          success, reached, future_navs, max, max_radius, factor, step, navs,
          pending, nb_navigate, result, call, ret>>

inputs == <<race, lands, request, routing_timeout, rayon, call, ret>>

\* no function is under test while a route runs
NoCall == [op |-> "none"]

\* navigate2 calls explored per route
MaxNavigate == 5


\* ------------------------------------------------------------- inputs

Origin == <<0, 0>>

Waypoint(name, dest, to_avoid) ==
    [kind |-> "waypoint", name |-> name, destination |-> dest, departure |-> dest,
     port |-> dest, starboard |-> dest, radius |-> 0, to_avoid |-> to_avoid,
     validated |-> FALSE]

Zone(name, dest, radius, to_avoid) ==
    [kind |-> "zone", name |-> name, destination |-> dest, departure |-> dest,
     port |-> dest, starboard |-> dest, radius |-> radius, to_avoid |-> to_avoid,
     validated |-> FALSE]

Door(name, port, starboard, dest, departure, to_avoid) ==
    [kind |-> "door", name |-> name, destination |-> dest, departure |-> departure,
     port |-> port, starboard |-> starboard, radius |-> 0, to_avoid |-> to_avoid,
     validated |-> FALSE]

\* a to-avoid triangle of W2 that covers the centre of Z1
NearZ1 == <<<<-10, -130>>, <<10, -130>>, <<0, -100>>>>

\* the races routed
Races ==
    { <<Waypoint("W1", <<0, -80>>, <<>>)>>,
      <<Waypoint("W1", <<0, -200>>, <<>>)>>,
      <<Waypoint("W1", <<0, 0>>, <<>>)>>,
      <<Waypoint("W1", <<0, -1>>, <<>>)>>,
      <<Waypoint("W1", <<40, 120>>, <<>>)>>,
      <<Zone("Z1", <<0, -120>>, 40000, <<>>),
        Waypoint("W2", <<80, -200>>, <<NearZ1>>)>>,
      <<Zone("Z1", <<0, 80>>, 20000, <<>>), Waypoint("W2", <<-40, 40>>, <<>>)>>,
      <<Door("D1", <<40, -80>>, <<-40, -80>>, <<0, -80>>, <<0, -90>>, <<>>)>> }

\* the land masks
LandSets == { {}, {<<0, -80>>} }

\* the sails the boat may start with
StartSails == {SailFromIndex(0), SailFromIndex(1)}

\* the routing timeouts
Timeouts == {None, Some(600)}

\* request.steps
Steps == <<<<3600, 60>>>>

RequestOf(sail) ==
    [from |-> Origin,
     boat_settings |-> [heading |-> TWA(90), sail |-> sail],
     status |-> [boat_speed |-> 0, wind |-> Wind, penalties |-> NoPenalties],
     steps |-> Steps]

Init ==
    /\ race \in Races
    /\ lands \in LandSets
    /\ request \in {RequestOf(sail) : sail \in StartSails}
    /\ routing_timeout \in Timeouts
    /\ rayon \in BOOLEAN
    /\ expired = FALSE
    /\ pc = "buoy"
    /\ buoys = GetBuoys(race)
    /\ destination = None
    /\ reachers = <<>>
    /\ from = request.from
    /\ froms = [absolute_duration |-> 0, min |-> None,
                alternatives |-> MapPut(EmptyMap, 0, AlternativeFromRequest(request)),
                reached_by_way |-> FALSE, crossed |-> FALSE]
    /\ duration = 0
    /\ best = None
    /\ best_dist_to = 0
    /\ success = TRUE
    /\ reached = FALSE
    /\ future_navs = <<>>
    /\ max = EmptyMap
    /\ max_radius = 0
    /\ factor = Accuracy
    /\ step = 0
    /\ navs = EmptyMap
    /\ pending = EmptyMap
    /\ nb_navigate = 0
    /\ result = None
    /\ call = NoCall
    /\ ret = None

\* ------------------------------------------------------------- actions

\* the clock passes start_routing + timeout
Expire ==
    /\ IsSome(routing_timeout)
    /\ ~expired
    /\ pc # "done"
    /\ expired' = TRUE
    /\ UNCHANGED <<inputs, pc, buoys, destination, reachers, from, froms, duration,
                   best, best_dist_to, success, reached, future_navs, max,
                   max_radius, factor, step, navs, pending, nb_navigate, result>>

\* route, lines 89-95: the radius of the envelope of a leg whose buoy is at
\* distance min.  Distance::from_nm(v) is v * 1852 m and a milli-cell stands
\* for ten metres, which keeps both thresholds within 32 bits;
\* min / 1000.0 < d is taken as min < 1000 * d, and min * 1.5 as min + min / 2.
MaxRadius(min) ==
    LET from_nm(value) == (value * 1852) \div 10
    IN  IF min < 1000 * from_nm(1000) THEN min + min \div 2
        ELSE IF min < 1000 * from_nm(100) THEN min * 2
        ELSE min + min \div 2

\* while let Some(destination) = buoys.next()  (lines 85-106)
NextBuoy ==
    /\ pc = "buoy"
    /\ IF buoys = <<>>
       THEN /\ pc' = "way"
            /\ UNCHANGED <<buoys, destination, reachers, reached, max_radius,
                           best_dist_to, factor>>
       ELSE LET min == BuoyDistance(Head(buoys), from) IN
            /\ pc' = "loop"
            /\ buoys' = Tail(buoys)
            /\ destination' = Some(Head(buoys))
            /\ reachers' = <<>>
            /\ reached' = FALSE
            /\ max_radius' = MaxRadius(min)
            /\ best_dist_to' = min
            /\ factor' = GetFactor(from, Head(buoys))
    /\ UNCHANGED <<inputs, expired, from, froms, duration, best, success,
                   future_navs, max, step, navs, pending, nb_navigate, result>>

\* the condition of the inner while (line 108)
Continue ==
    /\ ~reached
    /\ success
    /\ duration < max_duration
    /\ ~(IsSome(routing_timeout) /\ expired)

\* one turn of the inner loop up to the start of navigate_from_all
\* (lines 108-130, 597-606)
Navigate ==
    /\ pc = "loop"
    /\ Continue
    /\ nb_navigate < MaxNavigate
    /\ LET st == StepFor(request.steps, duration)
           kept == DropBefore(future_navs, duration + st)
       IN  /\ step' = st
           /\ future_navs' = kept
           /\ navs' = CollectByDuration(kept)
           /\ pending' = [az \in DOMAIN froms.alternatives |->
                            WayNavsOf(lands, from, froms.alternatives[az],
                                      Unwrap(destination), st, factor)]
    /\ pc' = "merge"
    /\ nb_navigate' = nb_navigate + 1
    /\ UNCHANGED <<inputs, expired, buoys, destination, reachers, from, froms,
                   duration, best, best_dist_to, success, reached, max, max_radius,
                   factor, result>>

\* one locked section of navigate_from_alternative: the next way_nav of the
\* alternative az goes to the shared map.  Without rayon the alternatives are
\* taken in key order.
Merge(az) ==
    /\ pc = "merge"
    /\ az \in DOMAIN pending
    /\ pending[az] # <<>>
    /\ rayon \/ \A other \in DOMAIN pending : other < az => pending[other] = <<>>
    /\ navs' = MergeWayNav(navs, Head(pending[az]))
    /\ pending' = [pending EXCEPT ![az] = Tail(@)]
    /\ UNCHANGED <<inputs, expired, pc, buoys, destination, reachers, from, froms,
                   duration, best, best_dist_to, success, reached, future_navs, max,
                   max_radius, factor, step, nb_navigate, result>>


RECURSIVE SumSizes(_)
SumSizes(ns) == IF ns = <<>> THEN 0 ELSE NavSize(Head(ns)) + SumSizes(Tail(ns))

\* a variant of SuccessAfter that lets an empty frontier pass
SuccessAfterKept(new_froms, new_navs, old) == old

\* success after a turn (lines 268-270): false once neither the frontier nor
\* the future navs hold a position
SuccessAfter(new_froms, new_navs, old) ==
    IF NavSize(new_froms) = 0 /\ SumSizes(new_navs) = 0 THEN FALSE ELSE old

\* the rest of the turn once every alternative is merged: the end of
\* navigate2 (lines 608-759) and lines 143-276 of route
Collect ==
    /\ pc = "merge"
    /\ \A az \in DOMAIN pending : pending[az] = <<>>
    /\ \E post \in {NavigatePost(navs, Unwrap(destination), reachers, factor, max,
                                  max_radius)} :
       IF post.navs = <<>>
       THEN /\ result' = Some([kind |-> "err", msg |-> "no nav found"])
            /\ pc' = "done"
            /\ UNCHANGED <<reachers, froms, duration, best, best_dist_to, success,
                           reached, future_navs, max>>
       ELSE
       \E nav \in {post.navs[1]} :
       \E acc \in {BestFold([best |-> best, best_dist_to |-> best_dist_to],
                            NavPositionSeq(nav))} :
           /\ reachers' = post.reachers
           /\ best' = acc.best
           /\ best_dist_to' = acc.best_dist_to
           /\ reached' = (nav.reached_by_way \/ (nav.crossed /\ buoys = <<>>))
           /\ result' = result
           /\ IF nav.reached_by_way /\ post.reachers = <<>>
              THEN \* success = false; break
                   /\ success' = FALSE
                   /\ pc' = "leave"
                   /\ duration' = nav.absolute_duration
                   /\ froms' = nav
                   /\ max' = post.max
                   /\ UNCHANGED future_navs
              ELSE
              \E new_froms \in {IF nav.reached_by_way THEN post.reachers[1] ELSE nav} :
              \E new_navs \in
                    {IF nav.reached_by_way
                     THEN MapValues(RebuildNavs(
                              EmptyMap, Tail(post.reachers), factor,
                              IF buoys # <<>>
                              THEN GetFactor(BuoyDeparture(Unwrap(destination)),
                                             Head(buoys))
                              ELSE factor,
                              Unwrap(destination)))
                     ELSE Tail(post.navs)} :
                  /\ froms' = new_froms
                  /\ duration' = new_froms.absolute_duration
                  /\ max' = IF nav.reached_by_way
                            THEN MaxFrom(EmptyMap, new_froms,
                                         HeldSeq(new_froms.alternatives,
                                                 SortedSeq(DOMAIN new_froms.alternatives)))
                            ELSE post.max
                  /\ success' = SuccessAfter(new_froms, new_navs, success)
                  /\ future_navs' = new_navs
                  /\ pc' = "loop"
    /\ UNCHANGED <<inputs, expired, buoys, destination, from, max_radius, factor,
                   step, navs, pending, nb_navigate>>

\* after the inner loop (lines 279-284)
LeaveLeg ==
    /\ \/ pc = "leave"
       \/ (pc = "loop" /\ ~Continue)
    /\ from' = BuoyDeparture(Unwrap(destination))
    /\ pc' = IF ~reached THEN "way" ELSE "buoy"
    /\ UNCHANGED <<inputs, expired, buoys, destination, reachers, froms, duration,
                   best, best_dist_to, success, reached, future_navs, max,
                   max_radius, factor, step, navs, pending, nb_navigate, result>>

\* the way and the RouteResult (lines 287-350)
Finish ==
    /\ pc = "way"
    /\ result' = IF IsSome(best)
                 THEN Some([kind |-> "ok", success |-> success,
                            way |-> BuildWay(Unwrap(best))])
                 ELSE Some([kind |-> "err", msg |-> "Routing failed"])
    /\ pc' = "done"
    /\ UNCHANGED <<inputs, expired, buoys, destination, reachers, from, froms,
                   duration, best, best_dist_to, success, reached, future_navs, max,
                   max_radius, factor, step, navs, pending, nb_navigate>>

Next ==
    \/ Expire
    \/ NextBuoy
    \/ Navigate
    \/ \E az \in DOMAIN pending : Merge(az)
    \/ Collect
    \/ LeaveLeg
    \/ Finish

Spec == Init /\ [][Next]_vars


\* ------------------------------------------------------------- properties

Outcome == Unwrap(result)

\* C1: when the last buoy is a waypoint and the frontier reached it by direct
\* aim, route returns success = true and a way that ends at the waypoint.
C1_WaypointReachIsSuccess ==
    (/\ pc = "done"
     /\ IsSome(destination)
     /\ Unwrap(destination).kind = "waypoint"
     /\ buoys = <<>>
     /\ froms.reached_by_way)
    => /\ Outcome.kind = "ok"
       /\ Outcome.success
       /\ Outcome.way[Len(Outcome.way)].from = BuoyDestination(Unwrap(destination))

\* C2: when the routing timeout ends a leg that is not reached, route returns
\* the way to the recorded best position with success = false.
C2_TimeoutIsFailure ==
    (/\ pc = "done"
     /\ expired
     /\ ~reached
     /\ IsSome(destination)
     /\ IsSome(best))
    => /\ Outcome.kind = "ok"
       /\ ~Outcome.success

\* C3: once a turn leaves neither a frontier position nor a future position,
\* success is false, no further navigate call is made, and route returns a
\* failure (success = false, or an error), never a success.
C3_EmptyFrontierFails ==
    /\ [][(/\ pc = "merge"
           /\ pc' \in {"loop", "leave"}
           /\ NavSize(froms') = 0
           /\ SumSizes(future_navs') = 0) => ~success']_vars
    /\ [][~success => (~success' /\ nb_navigate' = nb_navigate)]_vars
    /\ [](~success /\ IsSome(result)
            => (Outcome.kind = "err" \/ ~Outcome.success))

\* a route that ended on an empty frontier
C3_Witness ==
    /\ pc = "done"
    /\ nb_navigate > 0
    /\ NavSize(froms) = 0
    /\ SumSizes(future_navs) = 0
    /\ ~success
    /\ IsSome(result)

\* C5: no position of the current frontier is on land.
C5_FrontierOffLand ==
    \A pos \in NavPositions(froms) : pos.point \notin lands


\* C4: within a leg no entry of max decreases from one turn to the next.
C4_MaxNeverDecreases ==
    [][(pc = "merge" /\ pc' = "loop" /\ ~reached')
         => \A az \in DOMAIN max :
               /\ az \in DOMAIN max'
               /\ \A s \in Slots : max'[az][s] >= max[az][s]]_vars

\* C6: no position of the frontier expanded towards a buoy lies inside a
\* to-avoid triangle of that buoy.
C6_FrontierOutsideToAvoid ==
    pc = "merge"
    => \A pos \in NavPositions(froms) : ~IsToAvoid(Unwrap(destination), pos.point)

\* the way_navs of the current turn, in the order of the serial expansion
AllWayNavs ==
    LET keys == SortedSeq(DOMAIN froms.alternatives)
    IN  SeqConcat([i \in 1..Len(keys) |->
                      WayNavsOf(lands, from, froms.alternatives[keys[i]],
                                Unwrap(destination), step, factor)])

\* the shared map the serial expansion ends with
SerialNavs == MergeWayNavs(CollectByDuration(future_navs), AllWayNavs)

\* what C7 compares: per Nav time the reached flag and the from_dist of every
\* slot of every alternative
Outline(shared) ==
    [t \in DOMAIN shared |->
        [reached_by_way |-> shared[t].reached_by_way,
         from_dists |-> [az \in DOMAIN shared[t].alternatives |->
                           [s \in Slots |->
                              IF IsSome(shared[t].alternatives[az][s])
                              THEN Some(Unwrap(shared[t].alternatives[az][s]).from_dist)
                              ELSE None]]]]

\* no two candidates of one slot of one Nav time tie: they differ in from_dist
\* (merge_all) and, under the key -1, in duration (merge_all_by_duration)
NoTies ==
    LET cands == future_navs \o AllWayNavs
    IN  \A i, j \in 1..Len(cands) :
          (i < j /\ cands[i].absolute_duration = cands[j].absolute_duration)
          => \A az \in (DOMAIN cands[i].alternatives) \cap (DOMAIN cands[j].alternatives) :
               \A s \in Slots :
                  (IsSome(cands[i].alternatives[az][s])
                     /\ IsSome(cands[j].alternatives[az][s]))
                  => IF az = -1
                     THEN Unwrap(cands[i].alternatives[az][s]).duration.absolute
                            # Unwrap(cands[j].alternatives[az][s]).duration.absolute
                     ELSE Unwrap(cands[i].alternatives[az][s]).from_dist
                            # Unwrap(cands[j].alternatives[az][s]).from_dist

AllMerged == pc = "merge" /\ \A az \in DOMAIN pending : pending[az] = <<>>

\* C7: without ties the shared map is the same for every merge order and
\* equals the one of the serial expansion.
C7_MergeOrderIrrelevant ==
    (AllMerged /\ NoTies) => Outline(navs) = Outline(SerialNavs)

\* the Nav times at which the turn merges both a reached and a non-reaching
\* way_nav
ContestedTimes ==
    LET w == AllWayNavs
    IN  {t \in {w[i].absolute_duration : i \in 1..Len(w)} :
           /\ \E i \in 1..Len(w) : w[i].absolute_duration = t /\ w[i].reached_by_way
           /\ \E i \in 1..Len(w) : w[i].absolute_duration = t /\ ~w[i].reached_by_way}

\* C8: at a time where a reached and a non-reaching Nav were merged, the Nav
\* stored in the end is the reached one and holds no non-reaching position.
C8_ReachedOverrides ==
    AllMerged
    => \A t \in ContestedTimes :
          /\ t \in DOMAIN navs
          /\ navs[t].reached_by_way
          /\ DOMAIN navs[t].alternatives = {-1}


\* a position with its dist_to masked (the rebuild of future navs rewrites it)
Masked(pos) == [pos EXCEPT !.dist_to = 0]

\* C9: when a door or zone is reached the frontier becomes the first reacher
\* Nav and every later reacher Nav has a future Nav of the same
\* absolute_duration that holds every one of its positions.
C9_ReachersAllKept ==
    [][(/\ pc = "merge"
        /\ pc' = "loop"
        /\ reachers' # <<>>
        /\ froms' = reachers'[1])
         => \A i \in 2..Len(reachers') :
               \E j \in 1..Len(future_navs') :
                  /\ future_navs'[j].absolute_duration = reachers'[i].absolute_duration
                  /\ \A pos \in NavPositions(reachers'[i]) :
                        \E q \in NavPositions(future_navs'[j]) :
                           Masked(q) = Masked(pos)]_vars

\* the points of the chain of previous links, oldest first
RECURSIVE ChainPoints(_)
ChainPoints(pos) ==
    IF IsSome(pos.previous)
    THEN Append(ChainPoints(Unwrap(pos.previous)), pos.point)
    ELSE <<pos.point>>

\* C10: the way is the chain of previous links of the best position in
\* chronological order: it starts at the request origin with duration 0,
\* durations never decrease, and it ends at the best position.
C10_WayIsChainToBest ==
    (pc = "done" /\ Outcome.kind = "ok")
    => LET way == Outcome.way
       IN  /\ way[1].from = request.from
           /\ way[1].duration = 0
           /\ \A i \in 1..(Len(way) - 1) : way[i].duration <= way[i + 1].duration
           /\ way[Len(way)].from = Unwrap(best).point
           /\ way[Len(way)].duration = Unwrap(best).duration.absolute
           /\ [i \in 1..Len(way) |-> way[i].from] = ChainPoints(Unwrap(best))


Expanded == pc = "merge" /\ \A az \in DOMAIN pending : pending[az] = <<>>

\* pos went through Buoy::reach: the reacher Nav of its duration holds,
\* under the az key of pos, either pos or a position that Alternative::merge
\* prefers to it (one at least as far from the buoy's departure)
Registered(b, rs, pos, fct) ==
    \E i \in 1..Len(rs) :
       /\ rs[i].absolute_duration = pos.duration.absolute
       /\ \E az \in {AzKey(HeadingTo(BuoyDeparture(b), pos.point), fct)} :
             /\ az \in DOMAIN rs[i].alternatives
             /\ IsSome(rs[i].alternatives[az][0])
             /\ \E r \in {Unwrap(rs[i].alternatives[az][0])} :
                   \/ /\ r.point = pos.point
                      /\ r.previous = pos.previous
                      /\ r.settings = pos.settings
                   \/ r.from_dist >= DistanceTo(BuoyDeparture(b), pos.point)

\* nav is marked crossed, pos is rewritten as reached and registered
CrossingKept(b, rs, nav, pos, fct) ==
    /\ nav.crossed
    /\ pos.reached = Some(b.name)
    /\ Registered(b, rs, pos, fct)

\* C19 (crossing a zone or a door): in the Nav that becomes the frontier of
\* the step (the earliest Nav of navigate2's result), when that Nav is not
\* reached_by_way, every position that crossed the buoy has the Nav marked
\* crossed, is rewritten with reached = the buoy's name and is registered
\* among the buoy's reachers.
C19_FrontierCrossingsKept ==
    (Expanded /\ Unwrap(destination).kind # "waypoint")
    => \A post \in {NavigatePost(navs, Unwrap(destination), reachers, factor, max,
                                   max_radius)} :
          (post.navs # <<>> /\ ~post.navs[1].reached_by_way)
          => \A pos \in NavPositions(post.navs[1]) :
                Crossed(Unwrap(destination), pos)
                   => CrossingKept(Unwrap(destination), post.reachers, post.navs[1], pos,
                                   factor)

\* a step whose frontier holds a position that entered the zone
C19_Witness ==
    /\ Expanded
    /\ Unwrap(destination).kind = "zone"
    /\ \E post \in {NavigatePost(navs, Unwrap(destination), reachers, factor, max,
                                   max_radius)} :
          /\ post.navs # <<>>
          /\ ~post.navs[1].reached_by_way
          /\ \E pos \in NavPositions(post.navs[1]) :
                /\ Crossed(Unwrap(destination), pos)
                /\ pos.reached = Some(Unwrap(destination).name)

\* C19 as stated: every position of the step's expansion that crossed the
\* buoy, in whichever Nav of the result it lies, is kept that way.
C19_EveryCrossingKept ==
    (Expanded /\ Unwrap(destination).kind # "waypoint")
    => \A post \in {NavigatePost(navs, Unwrap(destination), reachers, factor, max,
                                   max_radius)} :
          \A i \in 1..Len(post.navs) :
             \A pos \in NavPositions(post.navs[i]) :
                Crossed(Unwrap(destination), pos)
                   => CrossingKept(Unwrap(destination), post.reachers, post.navs[i], pos,
                                   factor)


\* C20 (nothing later than a reached Nav): once every alternative of the
\* frontier is merged, the shared map holds no Nav whose absolute_duration
\* is later than that of a reached Nav it holds, in whatever order the
\* merges ran.
C20_NoNavAfterReached ==
    Expanded
    => \A d \in DOMAIN navs :
          navs[d].reached_by_way => \A later \in DOMAIN navs : later <= d


\* ------------------------------------------------------------- function calls
\*
\* The functions of position.rs, polar/mod.rs and router/mod.rs that the
\* C27 (best of the leg): best and best_dist_to change only when a frontier
\* is popped (and best_dist_to when a leg starts).  When a frontier is
\* popped, best is replaced exactly when no best exists yet and the frontier
\* holds a position, or a position of the frontier has dist_to strictly
\* smaller than best_dist_to; after a replacement best is a position of that
\* frontier and best.dist_to = best_dist_to; and once a best exists
\* best_dist_to never increases within the leg.
C27_BestFollowsNearest ==
    [][/\ best' # best => pc = "merge"
       /\ best_dist_to' # best_dist_to => pc \in {"merge", "buoy"}
       /\ (pc = "merge" /\ pc' \in {"loop", "leave"})
            => \A popped \in {NavPositions(
                                NavigatePost(navs, Unwrap(destination), reachers, factor,
                                             max, max_radius).navs[1])} :
                  /\ best' # best
                       <=> \/ ~IsSome(best) /\ popped # {}
                           \/ \E pos \in popped : pos.dist_to < best_dist_to
                  /\ best' # best
                       => /\ IsSome(best')
                          /\ Unwrap(best') \in popped
                          /\ Unwrap(best').dist_to = best_dist_to'
                  /\ best' = best /\ IsSome(best) => best_dist_to' = best_dist_to
                  /\ IsSome(best) => best_dist_to' <= best_dist_to]_vars

\* after a second navigate turn or a later one, the best is a position of
\* the frontier just popped: it replaced the best of an earlier turn
C27_Witness ==
    /\ pc = "loop"
    /\ nb_navigate >= 2
    /\ IsSome(best)
    /\ Unwrap(best).duration.absolute = duration
    /\ Unwrap(best) \in NavPositions(froms)
    /\ Unwrap(best).dist_to = best_dist_to
    /\ best_dist_to > 0

\* C27 as stated: within a leg best_dist_to never increases.
C27_BestDistToNeverIncreases ==
    [][pc # "buoy" => best_dist_to' <= best_dist_to]_vars

\* every Nav the route holds: the current frontier, the future navs, the
\* shared result map, the way_navs waiting to be merged into it and the
\* reachers of the destination
HeldNavs ==
    {froms}
    \cup {future_navs[i] : i \in DOMAIN future_navs}
    \cup {navs[d] : d \in DOMAIN navs}
    \cup {reachers[i] : i \in DOMAIN reachers}
    \cup UNION {{pending[az][i] : i \in DOMAIN pending[az]} : az \in DOMAIN pending}

\* C29 (one duration per Nav): every Position stored in a Nav (the current
\* frontier, a future nav, an entry of the shared result map or a reacher of
\* the buoy) has duration.absolute equal to the absolute_duration of that
\* Nav, whatever expansions, merges, reaches and leg changes came before.
C29_PositionsCarryTheirNavsDuration ==
    \A nav \in HeldNavs :
       \A pos \in NavPositions(nav) : pos.duration.absolute = nav.absolute_duration

\* a leg change: the frontier is the first reacher of the buoy left behind
\* and a future nav rebuilt from a later reacher holds positions of its own
\* duration
C29_Witness ==
    /\ pc = "loop"
    /\ Len(race) = 2
    /\ buoys = <<>>
    /\ froms.absolute_duration > 0
    /\ \E pos \in NavPositions(froms) :
          /\ pos.distance = 0
          /\ pos.dist_to = 0
          /\ pos.duration.absolute = froms.absolute_duration
    /\ \E i \in DOMAIN future_navs :
          /\ future_navs[i].absolute_duration > froms.absolute_duration
          /\ \E pos \in NavPositions(future_navs[i]) :
                /\ pos.distance = 0
                /\ pos.duration.absolute = future_navs[i].absolute_duration

\* router calls are also checked on their own: SpecCalls starts from one
\* call with arguments drawn from the sets below and applies the function.

route_vars == <<race, lands, request, routing_timeout, rayon, expired, pc, buoys,
                destination, reachers, from, froms, duration, best, best_dist_to,
                success, reached, future_navs, max, max_radius, factor, step, navs,
                pending, nb_navigate, result>>

\* no route runs while a function is under test
NoRoute ==
    /\ race = <<>>
    /\ lands = {}
    /\ request = RequestOf(SailFromIndex(0))
    /\ routing_timeout = None
    /\ rayon = FALSE
    /\ expired = FALSE
    /\ pc = "done"
    /\ buoys = <<>>
    /\ destination = None
    /\ reachers = <<>>
    /\ from = Origin
    /\ froms = [absolute_duration |-> 0, min |-> None, alternatives |-> EmptyMap,
                reached_by_way |-> FALSE, crossed |-> FALSE]
    /\ duration = 0
    /\ best = None
    /\ best_dist_to = 0
    /\ success = TRUE
    /\ reached = FALSE
    /\ future_navs = <<>>
    /\ max = EmptyMap
    /\ max_radius = 0
    /\ factor = Accuracy
    /\ step = 0
    /\ navs = EmptyMap
    /\ pending = EmptyMap
    /\ nb_navigate = 0
    /\ result = None

\* durations are drawn in half minutes
Tick == SecPerMin \div 2
\* longest duration argument, in ticks
MaxTicks == 4
\* longest penalty component, in ticks
MaxPenaltyTicks == 3

Durations == {k * Tick : k \in 0..MaxTicks}

\* Penalty values (ratios are multiples of 100 per-mille), zero-duration
\* ones included
PenaltyValues ==
    {[duration |-> k * Tick, ratio |-> r] : k \in 0..MaxPenaltyTicks, r \in {500, 800}}

\* Penalties values: every component is None or Some of a Penalty value
PenaltiesValues ==
    LET components == {None} \cup {Some(pn) : pn \in PenaltyValues}
    IN  {[gybe |-> g, sail_change |-> s, tack |-> t] :
            g \in components, s \in components, t \in components}

\* boat speeds, milli-cells per minute; multiples of 60000 keep every product
\* of the ratios above and every whole-second distance exact
BoatSpeeds == {0, 60000, 120000}

DistanceCalls ==
    {[op |-> "distance", boat_speed |-> v, duration |-> d, penalties |-> p] :
        v \in BoatSpeeds, d \in Durations, p \in PenaltiesValues}

\* Polar::distance(boat_speed, duration, &penalties)
CallDistance ==
    /\ call.op = "distance"
    /\ ret = None
    /\ ret' = Some(PolarDistance(call.boat_speed, call.duration, call.penalties))
    /\ UNCHANGED <<route_vars, call>>

\* the product (per-mille) of the ratios of the components of p whose
\* duration is longer than t; the ratios drawn are multiples of 100, so the
\* division is exact
ActiveRatio(p, t) ==
    ((IF CompDuration(p.gybe) > t THEN CompRatio(p.gybe) ELSE 1000)
     * (IF CompDuration(p.sail_change) > t THEN CompRatio(p.sail_change) ELSE 1000)
     * (IF CompDuration(p.tack) > t THEN CompRatio(p.tack) ELSE 1000)) \div 1000000

\* the integral over the first n ticks of v times ActiveRatio, in
\* thousandths of a milli-cell (v is a multiple of 60)
RECURSIVE Integral(_, _, _)
Integral(v, p, n) ==
    IF n = 0 THEN 0
    ELSE Integral(v, p, n - 1)
         + (v \div SecPerMin) * ActiveRatio(p, (n - 1) * Tick) * Tick

\* C11 (distance and penalties left): Polar::distance(v, d, P) returns the
\* integral over [0, d] of v times the product of the ratios of the
\* components of P still active at each instant (v*d when none is), and the
\* penalties it returns hold the same active components as P minus d.
C11_DistanceIntegratesPenalties ==
    (call.op = "distance" /\ IsSome(ret))
    => /\ Unwrap(ret).distance * 1000
            = Integral(call.boat_speed, call.penalties, call.duration \div Tick)
       /\ PenSub(Unwrap(ret).pen, 0) = PenSub(call.penalties, call.duration)

\* a call that sails through two penalty segments of different ratios and on
\* after the last one has ended
C11_Witness ==
    /\ call.op = "distance"
    /\ IsSome(ret)
    /\ call.boat_speed > 0
    /\ IsSome(call.penalties.gybe)
    /\ IsSome(call.penalties.tack)
    /\ 0 < CompDuration(call.penalties.gybe)
    /\ CompDuration(call.penalties.gybe) < CompDuration(call.penalties.tack)
    /\ CompDuration(call.penalties.tack) < call.duration
    /\ Unwrap(ret).distance > 0

\* C11 as stated: the penalties returned are P minus d itself.
C11_RemainingIsPenaltiesMinusDuration ==
    (call.op = "distance" /\ IsSome(ret))
    => Unwrap(ret).pen = PenSub(call.penalties, call.duration)

\* Polar::duration is called with the distance Polar::distance returns for
\* the duration `sailed`
DurationCalls ==
    {[op |-> "duration", boat_speed |-> v,
      distance |-> PolarDistance(v, d, p).distance, penalties |-> p, sailed |-> d] :
        v \in BoatSpeeds \ {0}, d \in Durations, p \in PenaltiesValues}

\* Polar::duration(boat_speed, distance, penalties)
CallDuration ==
    /\ call.op = "duration"
    /\ ret = None
    /\ ret' = Some(PolarDuration(call.boat_speed, call.distance, call.penalties))
    /\ UNCHANGED <<route_vars, call>>

\* C12 (duration is the dual of distance): for v > 0,
\* Polar::duration(v, Polar::distance(v, d, P).distance, P) returns d up to
\* one second of truncation, and, when it returns d, the same active
\* penalties as Polar::distance.
C12_DurationInvertsDistance ==
    (call.op = "duration" /\ IsSome(ret))
    => /\ Abs(Unwrap(ret).duration - call.sailed) <= 1
       /\ Unwrap(ret).duration = call.sailed
            => PenSub(Unwrap(ret).pen, 0)
                 = PenSub(PolarDistance(call.boat_speed, call.sailed,
                                        call.penalties).pen, 0)

ToVecCalls == {[op |-> "to_vec", penalties |-> p] : p \in PenaltiesValues}

\* Penalties::to_vec(&self)
CallToVec ==
    /\ call.op = "to_vec"
    /\ ret = None
    /\ ret' = Some(PenToVec(call.penalties))
    /\ UNCHANGED <<route_vars, call>>

\* the sum of the durations of the first n segments
RECURSIVE SegmentsDuration(_, _)
SegmentsDuration(segments, n) ==
    IF n = 0 THEN 0
    ELSE SegmentsDuration(segments, n - 1) + segments[n].duration

\* C13 (to_vec): the segments follow each other in time, their durations sum
\* to duration(), the ratio of each segment is the product of the ratios of
\* the components active during it, and no segment has a zero duration.
C13_ToVecSegments ==
    (call.op = "to_vec" /\ IsSome(ret))
    => LET segments == Unwrap(ret)
       IN  /\ SegmentsDuration(segments, Len(segments)) = PenDuration(call.penalties)
           /\ \A i \in 1..Len(segments) :
                 /\ segments[i].duration > 0
                 /\ \A k \in 0..((segments[i].duration \div Tick) - 1) :
                       segments[i].ratio
                         = ActiveRatio(call.penalties,
                                       SegmentsDuration(segments, i - 1) + k * Tick)

MinPenaltyDurationCalls ==
    {[op |-> "min_penalty_duration", penalties |-> p] : p \in PenaltiesValues}

\* Penalties::min_penalty_duration(&self), with Penalties::duration(&self)
CallMinPenaltyDuration ==
    /\ call.op = "min_penalty_duration"
    /\ ret = None
    /\ ret' = Some([min |-> MinPenaltyDuration(call.penalties),
                    duration |-> PenDuration(call.penalties)])
    /\ UNCHANGED <<route_vars, call>>

SubCalls ==
    {[op |-> "sub", penalties |-> p, rhs |-> d] :
        p \in PenaltiesValues, d \in Durations}

\* impl Sub<Duration> for Penalties, with Penalties::is_some on the result
CallSub ==
    /\ call.op = "sub"
    /\ ret = None
    /\ ret' = Some([pen |-> PenSub(call.penalties, call.rhs),
                    is_some |-> PenIsSome(PenSub(call.penalties, call.rhs))])
    /\ UNCHANGED <<route_vars, call>>

\* the durations of the components of p that are Some
PresentDurations(p) ==
    {Unwrap(c).duration : c \in {p.gybe, p.sail_change, p.tack} \ {None}}

\* the smallest of a set of durations, None when the set is empty
Smallest(S) ==
    IF S = {} THEN None ELSE Some(CHOOSE x \in S : \A y \in S : x <= y)

\* C14 (shortest penalty): min_penalty_duration() returns the smallest
\* duration among the components that are Some (None when there is none),
\* never more than duration(); after subtracting any d >= duration() every
\* component is None and is_some() is false.
C14_MinPenaltyDuration ==
    /\ (call.op = "min_penalty_duration" /\ IsSome(ret))
       => /\ Unwrap(ret).min = Smallest(PresentDurations(call.penalties))
          /\ IsSome(Unwrap(ret).min) => Unwrap(Unwrap(ret).min) <= Unwrap(ret).duration
    /\ (call.op = "sub" /\ IsSome(ret) /\ call.rhs >= PenDuration(call.penalties))
       => /\ Unwrap(ret).pen = NoPenalties
          /\ ~Unwrap(ret).is_some

\* three components of different durations, the shortest not the first
C14_Witness ==
    /\ call.op = "min_penalty_duration"
    /\ IsSome(ret)
    /\ CompDuration(call.penalties.gybe) > CompDuration(call.penalties.tack)
    /\ CompDuration(call.penalties.tack) > CompDuration(call.penalties.sail_change)
    /\ CompDuration(call.penalties.sail_change) > 0
    /\ Unwrap(ret).min = Some(CompDuration(call.penalties.sail_change))

\* C14 as stated: the smallest duration among the components whose duration
\* is not zero.
C14_MinOverActiveComponents ==
    (call.op = "min_penalty_duration" /\ IsSome(ret))
    => Unwrap(ret).min = Smallest(PresentDurations(call.penalties) \ {0})

\* angles are drawn every AngleGrain degrees
AngleGrain == 15
\* headings and wind directions, in [0, 360)
Degrees == {k * AngleGrain : k \in 0..(359 \div AngleGrain)}
\* true wind angles, in (-180, 180]
TwaDegrees == {180 - d : d \in Degrees}

TwaCalls == {[op |-> "twa", self |-> HEADING(h), twd |-> twd] :
                h \in Degrees, twd \in Degrees}
HeadingCalls == {[op |-> "heading", self |-> TWA(t), twd |-> twd] :
                    t \in TwaDegrees, twd \in Degrees}

\* Heading::twa(&self, twd)
CallTwa ==
    /\ call.op = "twa"
    /\ ret = None
    /\ ret' = Some(TwaOf(call.self, call.twd))
    /\ UNCHANGED <<route_vars, call>>

\* Heading::heading(&self, twd)
CallHeading ==
    /\ call.op = "heading"
    /\ ret = None
    /\ ret' = Some(HeadingOf(call.self, call.twd))
    /\ UNCHANGED <<route_vars, call>>

\* C15 (heading and twa): for h and twd in [0, 360) and t in (-180, 180],
\* HEADING(h).twa(twd) is congruent to twd - h modulo 360 and lies in
\* (-180, 180]; TWA(t).heading(twd) is congruent to twd - t modulo 360 and
\* lies in [0, 360).
C15_TwaAndHeadingProject ==
    /\ (call.op = "twa" /\ IsSome(ret))
       => /\ (Unwrap(ret) - (call.twd - call.self.val)) % 360 = 0
          /\ -180 < Unwrap(ret) /\ Unwrap(ret) <= 180
    /\ (call.op = "heading" /\ IsSome(ret))
       => /\ (Unwrap(ret) - (call.twd - call.self.val)) % 360 = 0
          /\ 0 <= Unwrap(ret) /\ Unwrap(ret) < 360

\* a twa that had to be wrapped: the wind on the beam with twd below h
C15_Witness ==
    /\ call.op = "twa"
    /\ IsSome(ret)
    /\ call.twd - call.self.val <= -180
    /\ Unwrap(ret) = 90

\* C15 as stated: HEADING(h).twa(twd) + (twd - h) is congruent to 0 modulo
\* 360.
C15_TwaPlusWindMinusHeading ==
    (call.op = "twa" /\ IsSome(ret))
    => (Unwrap(ret) + (call.twd - call.self.val)) % 360 = 0

\* the previous sail is AUTO or a sail of the polar, the new sail is one the
\* polar selects; the twa pairs cover no manoeuvre, a tack and a gybe; the
\* pending penalties are none, a whole sail change, or half a minute left of
\* each kind
AddPenaltiesCalls ==
    {[op |-> "add_penalties", penalties |-> p, stamina |-> st,
      previous_twa |-> pt, new_twa |-> nt, previous_sail |-> ps, new_sail |-> ns] :
        p \in {NoPenalties, [NoPenalties EXCEPT !.sail_change = Some(WinchSailChange)],
               [gybe |-> Some([duration |-> Tick, ratio |-> 500]),
                sail_change |-> Some([duration |-> Tick, ratio |-> 500]),
                tack |-> Some([duration |-> Tick, ratio |-> 500])]},
        st \in {1000, 200},
        pt \in {45, -135}, nt \in {45, -45, -135, 135, 90, -90, 0},
        ps \in {AUTO} \cup {SailFromId(id) : id \in 1..NbSails},
        ns \in {SailFromId(id) : id \in 1..NbSails}}

\* Polar::add_penalties and Polar::tired, as jump2 calls them for one step
CallAddPenalties ==
    /\ call.op = "add_penalties"
    /\ ret = None
    /\ ret' = Some([penalties |-> AddPenalties(call.penalties, call.previous_twa,
                                               call.new_twa, call.previous_sail,
                                               call.new_sail),
                    stamina |-> Tired(call.stamina, call.previous_twa, call.new_twa,
                                      call.previous_sail, call.new_sail)])
    /\ UNCHANGED <<route_vars, call>>

\* C16 (AUTO is a wildcard): Sail::AUTO compares equal to every sail the
\* polar can select, so a step whose previous sail is AUTO receives no
\* sail_change penalty and pays no sail-change stamina, whatever the new sail.
C16_AutoIsWildcard ==
    (call.op = "add_penalties" /\ IsSome(ret) /\ call.previous_sail = AUTO)
    => /\ SailEq(call.previous_sail, call.new_sail)
       /\ Unwrap(ret).penalties.sail_change = call.penalties.sail_change
       /\ Unwrap(ret).stamina
            = Tired(call.stamina, call.previous_twa, call.new_twa,
                    call.new_sail, call.new_sail)

\* default_steps(), in seconds
DefaultSteps ==
    <<<<3600, 600>>, <<21600, 3600>>, <<86400, 180>>, <<35996400, 21600>>>>

\* the schedules: the default one, the one of the routes above, and one
\* whose horizons are not in increasing order
StepCalls ==
    {[op |-> "step", steps |-> st, duration |-> d] :
        st \in {DefaultSteps, Steps, <<<<7200, 60>>, <<3600, 120>>, <<10800, 300>>>>},
        d \in {0, 599, 3599, 3600, 3601, 7199, 7200, 10799, 10800, 21599, 21600,
               86399, 86400, 86401, 35996399, 35996400, 40000000}}

\* route, line 110: the step of the outer iteration
CallStep ==
    /\ call.op = "step"
    /\ ret = None
    /\ ret' = Some(StepFor(call.steps, call.duration))
    /\ UNCHANGED <<route_vars, call>>

\* C17 (step schedule): the step is the step of the first entry whose
\* horizon is strictly greater than the elapsed duration, and the step of
\* the last entry when there is none; with the default schedule: 10 min
\* below 1 h, 1 h below 6 h, 3 min below 24 h, 6 h afterwards.
C17_StepOfFirstLaterHorizon ==
    (call.op = "step" /\ IsSome(ret))
    => LET steps == call.steps
           d == call.duration
       IN  /\ \/ \E i \in 1..Len(steps) :
                    /\ steps[i][1] > d
                    /\ \A j \in 1..(i - 1) : steps[j][1] <= d
                    /\ Unwrap(ret) = steps[i][2]
              \/ /\ \A i \in 1..Len(steps) : steps[i][1] <= d
                 /\ Unwrap(ret) = steps[Len(steps)][2]
           /\ steps = DefaultSteps
                => Unwrap(ret) = (IF d < 3600 THEN 600
                                  ELSE IF d < 21600 THEN 3600
                                  ELSE IF d < 86400 THEN 180
                                  ELSE 21600)

\* the default schedule asked at exactly one hour
C17_Witness ==
    /\ call.op = "step"
    /\ call.steps = DefaultSteps
    /\ call.duration = 3600
    /\ ret = Some(3600)

\* jump2, lines 392-395, for one step and one composed Penalties value
CallJumpDuration ==
    /\ call.op = "jump_duration"
    /\ ret = None
    /\ ret' = Some(JumpDuration(call.duration, PenDuration(call.penalties)))
    /\ UNCHANGED <<route_vars, call>>

\* C21 (jump duration): when the composed penalties last longer than the
\* step, the jump lasts ceil(penalties.duration() / step) * step, a multiple
\* of the step that is at least penalties.duration(); otherwise it lasts the
\* step.
C21_JumpDurationCoversPenalties ==
    (call.op = "jump_duration" /\ IsSome(ret))
    => LET d == call.duration
           pen == PenDuration(call.penalties)
       IN  IF pen > d
           THEN /\ Unwrap(ret) = CeilDiv(pen, d) * d
                /\ Unwrap(ret) >= pen
           ELSE Unwrap(ret) = d

\* largest frontier drawn, in positions (the size test of navigate2 is 25)
MaxFrontier == 28

\* navigate2 post-processing a frontier of 25 to MaxFrontier positions, two
\* per az key (sails 0 and 1), one step after a start from the origin.  Each
\* position lies on one of four points: near the buoy, far from it (beyond
\* twice the smallest dist_to), inside the circle of the zone, or off the
\* route (beyond max_radius); dist_to, from_dist and the min of the Nav are
\* computed as jump2 and way2 compute them.
FrontierCalls ==
    LET dest == <<0, 100>>
        source == PositionFromRequest(RequestOf(SailFromIndex(0)))
        position(i, point, to) ==
            [az |-> i \div 2,
             point |-> point,
             from_dist |-> DistanceTo(Origin, point),
             dist_to |-> BuoyDistance(to, point),
             duration |-> NavDurationAdd(source.duration, SecPerMin),
             distance |-> DistanceTo(Origin, point),
             reached |-> None,
             settings |-> [heading |-> TWA(90), sail |-> SailFromIndex(i % 2)],
             status |-> [boat_speed |-> PolarSpeed(SailFromIndex(0).id, 90),
                         wind |-> Wind, penalties |-> NoPenalties],
             previous |-> Some(source),
             remaining_penalties |-> NoPenalties]
        point(i, far, inside, out) ==
            IF i \in inside THEN <<0, 90>>
            ELSE IF i \in far THEN <<0, 10>>
            ELSE IF i \in out THEN <<50, 60>>
            ELSE <<0, 60>>
        alternatives(n, far, inside, out, to) ==
            [az \in 0..((n - 1) \div 2) |->
                [s \in Slots |->
                    IF s < 2 /\ 2 * az + s < n
                    THEN Some(position(2 * az + s, point(2 * az + s, far, inside, out), to))
                    ELSE None]]
        frontier(alts) ==
            [absolute_duration |-> SecPerMin,
             min |-> Smallest({Unwrap(alts[az][s]).dist_to :
                                 <<az, s>> \in {x \in (DOMAIN alts) \X Slots :
                                                   IsSome(alts[x[1]][x[2]])}}),
             alternatives |-> alts,
             reached_by_way |-> FALSE,
             crossed |-> FALSE]
    IN  {[op |-> "navigate2",
          shared |-> MapPut(EmptyMap, SecPerMin,
                            frontier(alternatives(n, far, inside, out, to))),
          to |-> to,
          max_radius |-> BuoyDistance(to, Origin) + 5 * MilliPerCell] :
            n \in 25..MaxFrontier,
            far \in {{}, {0}, {0, 1}, {0, 1, 2}, {26}},
            inside \in {{}, {0}, {5}},
            out \in {{}, {3}},
            to \in {Waypoint("W1", dest, <<>>), Zone("Z1", dest, 20 * MilliPerCell, <<>>)}}

\* navigate2 from the sort of the shared map on (lines 608-759), at the first
\* step of a leg: no reacher yet, no high-water mark yet
CallNavigate2 ==
    /\ call.op = "navigate2"
    /\ ret = None
    /\ ret' = Some(NavigatePost(call.shared, call.to, <<>>, Accuracy, EmptyMap,
                                call.max_radius))
    /\ UNCHANGED <<route_vars, call>>

\* the (az, slot) pairs at which a Nav holds a position
Held(nav) ==
    {x \in (DOMAIN nav.alternatives) \X Slots : IsSome(nav.alternatives[x[1]][x[2]])}

\* the filters of the slot loop other than the 2 * min one that apply to a
\* position of the frontiers drawn
OtherDrop(pos) ==
    \/ IsToAvoid(call.to, pos.point)
    \/ pos.from_dist + pos.dist_to > call.max_radius

\* C22 (pruning beyond twice the minimum): the rule is applied position by
\* position, in az then slot order, against the running size of the frontier,
\* which every removal decrements.  So when more than 25 positions survive the
\* post-processing none of them has dist_to > 2 * min; a position that no
\* other filter drops is removed only if its dist_to > 2 * min; and the rule
\* stops at 25: the frontier keeps at least min(25, size) positions, less
\* those the other filters drop.
C22_PruningWhileAbove25 ==
    (call.op = "navigate2" /\ IsSome(ret))
    => \A nav \in {call.shared[SecPerMin]} : \A out \in {Unwrap(ret).navs[1]} :
          /\ Cardinality(Held(out)) > 25
                => \A p \in NavPositions(out) : p.dist_to <= 2 * Unwrap(nav.min)
          /\ \A x \in Held(nav) \ Held(out) :
                \/ OtherDrop(Unwrap(nav.alternatives[x[1]][x[2]]))
                \/ Unwrap(nav.alternatives[x[1]][x[2]]).dist_to > 2 * Unwrap(nav.min)
          /\ Cardinality(Held(out))
               >= Min2(25, Cardinality(Held(nav)))
                    - Cardinality({x \in Held(nav) :
                                     OtherDrop(Unwrap(nav.alternatives[x[1]][x[2]]))})

\* a frontier of more than 25 positions from which the rule removed a
\* position and in which a position beyond twice the minimum survives
C22_Witness ==
    /\ call.op = "navigate2"
    /\ IsSome(ret)
    /\ Unwrap(call.shared[SecPerMin].min) > 0
    /\ Cardinality(Held(call.shared[SecPerMin])) > 25
    /\ Cardinality(Held(Unwrap(ret).navs[1])) = 25
    /\ \E x \in Held(call.shared[SecPerMin]) \ Held(Unwrap(ret).navs[1]) :
          ~OtherDrop(Unwrap(call.shared[SecPerMin].alternatives[x[1]][x[2]]))
    /\ \E p \in NavPositions(Unwrap(ret).navs[1]) :
          p.dist_to > 2 * Unwrap(call.shared[SecPerMin].min)

\* C22 as stated: if the frontier holds more than 25 positions when its
\* post-processing starts, no position with dist_to > 2 * min survives.
C22_NoFarSurvivor ==
    (call.op = "navigate2" /\ IsSome(ret) /\ Cardinality(Held(call.shared[SecPerMin])) > 25)
    => \A p \in NavPositions(Unwrap(ret).navs[1]) :
          p.dist_to <= 2 * Unwrap(call.shared[SecPerMin].min)

\* C30 (pruning keeps the nearest): the dist_to > 2 * min rule never removes
\* a position that achieves the smallest dist_to of the frontier, for every
\* buoy kind, a zone included (its dist_to is the distance to the centre
\* minus the radius): such a position, when no other filter drops it, is
\* still in the frontier after the post-processing, so the rule alone never
\* empties a non-empty frontier.
C30_PruningKeepsNearest ==
    (call.op = "navigate2" /\ IsSome(ret))
    => \A nav \in {call.shared[SecPerMin]} : \A out \in {Unwrap(ret).navs[1]} :
          /\ \A x \in Held(nav) :
                (/\ Unwrap(nav.alternatives[x[1]][x[2]]).dist_to = Unwrap(nav.min)
                 /\ ~OtherDrop(Unwrap(nav.alternatives[x[1]][x[2]])))
                => x \in Held(out)
          /\ Held(out) # {}

\* route, lines 88-95, for one leg distance
CallMaxRadius ==
    /\ call.op = "max_radius"
    /\ ret = None
    /\ ret' = Some(MaxRadius(call.min))
    /\ UNCHANGED <<route_vars, call>>

\* C23 (envelope factor): max_radius = k * min with k = 1.5 for short legs,
\* 2.0 for mid-distance legs and 1.5 for long legs; the mid-distance legs are
\* those the second test of the code selects (100 nm up to 1000 nm, on min or
\* on min / 1000), and for them max_radius = 2.0 * min.
C23_MidLegsGetDouble ==
    (call.op = "max_radius" /\ IsSome(ret))
    => \A hundred_nm \in {18520} :
          /\ Unwrap(ret) \in {call.min + call.min \div 2, call.min * 2}
          /\ (\/ (hundred_nm <= call.min /\ call.min < 10 * hundred_nm)
              \/ (1000 * hundred_nm <= call.min /\ call.min < 10000 * hundred_nm))
                => Unwrap(ret) = call.min * 2

\* way2 for one source position and one waypoint, one step of a minute.  The
\* sources: the position of the request; the positions one jump from it,
\* whose dist_to is the distance to the waypoint; the position Buoy::reach
\* registers when a jump crosses door D1; and that position as the leg change
\* rebuilds it for the next leg (dist_to recomputed, distance left at zero).
Way2Calls ==
    LET D1 == Door("D1", <<40, 20>>, <<-40, 20>>, <<0, 20>>, <<0, 30>>, <<>>)
        origin == PositionFromRequest(RequestOf(SailFromIndex(0)))
        jumps(to) ==
            {pair[2] : pair \in
                UNION {{Jump2({}, Origin, origin, to, TWA(TwaSweep[i]), SecPerMin, Wind,
                              Accuracy)[k] :
                           k \in 1..Len(Jump2({}, Origin, origin, to, TWA(TwaSweep[i]),
                                              SecPerMin, Wind, Accuracy))} :
                       i \in 1..Len(TwaSweep)}}
        reacher(pos) == Reach(<<>>, D1, pos, Accuracy)[1]
        rebuilt(nav) ==
            RebuildInto(NavFrom(nav.absolute_duration), nav,
                        SortedSeq(DOMAIN nav.alternatives), Accuracy, Accuracy, D1)
        registered == {reacher(pos) : pos \in {p \in jumps(D1) : Crossed(D1, p)}}
        sources(to) ==
            {origin} \cup jumps(to)
            \cup UNION {NavPositions(nav) \cup NavPositions(rebuilt(nav)) : nav \in registered}
    IN  UNION {{[op |-> "way2", from |-> src, to |-> to, duration |-> SecPerMin] :
                   src \in sources(to)} :
               to \in {Waypoint("W2", dest, <<>>) :
                          dest \in {<<0, 40>>, <<0, 60>>, <<0, 80>>, <<0, 100>>,
                                    <<0, -40>>, <<0, -80>>, <<40, 80>>, <<0, 200>>}}}

\* Echeneis::way2(…, start, from, &Some(to), duration, &wind, factor), no land
CallWay2 ==
    /\ call.op = "way2"
    /\ ret = None
    /\ ret' = Some(Way2({}, Origin, call.from, call.to, call.duration, Wind, Accuracy))
    /\ UNCHANGED <<route_vars, call>>

\* the travel times (Polar::duration under the penalties add_penalties
\* composes) of the polar candidates that bring the source of the call to the
\* destination of the buoy in at most 1.5 * step
DirectTimes ==
    LET source == call.from
        dest == BuoyDestination(call.to)
        heading == HEADING(HeadingTo(source.point, dest))
        speeds == GetBoatSpeeds(heading, Wind.direction, source.settings.sail)
        time(polar_result) ==
            PolarDuration(polar_result.speed, DistanceTo(source.point, dest),
                          AddPenalties(source.remaining_penalties,
                                       TwaOf(source.settings.heading,
                                             source.status.wind.direction),
                                       TwaOf(heading, Wind.direction),
                                       source.settings.sail, polar_result.sail)).duration
    IN  {t \in {time(speeds[i]) : i \in 1..Len(speeds)} : 2 * t <= 3 * call.duration}

\* C24 (direct aim): whenever some polar candidate lets the source cover the
\* distance to the buoy destination, under its active penalties, in at most
\* 1.5 * step, way2 returns exactly one Nav: reached_by_way, at the absolute
\* duration of the source plus the travel time of the fastest candidate, with
\* the single key -1 holding one terminal Position (point = buoy destination,
\* dist_to = 0); no position of a TWA sweep is returned.
C24_DirectAimWheneverInRange ==
    (call.op = "way2" /\ IsSome(ret) /\ DirectTimes # {})
    => \A way_navs \in {Unwrap(ret)} : \A fastest \in {Unwrap(Smallest(DirectTimes))} :
          /\ Len(way_navs) = 1
          /\ way_navs[1].reached_by_way
          /\ way_navs[1].absolute_duration = call.from.duration.absolute + fastest
          /\ DOMAIN way_navs[1].alternatives = {-1}
          /\ \E pos \in NavPositions(way_navs[1]) :
                /\ NavPositions(way_navs[1]) = {pos}
                /\ pos.point = BuoyDestination(call.to)
                /\ pos.dist_to = 0
                /\ pos.duration.absolute = way_navs[1].absolute_duration

\* one call of merge_fast of a sequence of calls on the same Alternative:
\* ret holds the Alternative so far and the number of positions merged
CallMergeFast ==
    /\ call.op = "merge_fast"
    /\ \E cur \in {IF IsSome(ret) THEN Unwrap(ret) ELSE [alt |-> call.self, n |-> 0]} :
          /\ cur.n < Len(call.offered)
          /\ ret' = Some([alt |-> MergeFast(cur.alt, call.offered[cur.n + 1]),
                          n |-> cur.n + 1])
    /\ UNCHANGED <<route_vars, call>>

\* one call of merge_all of a sequence of calls on the same Alternative
CallMergeAll ==
    /\ call.op = "merge_all"
    /\ \E cur \in {IF IsSome(ret) THEN Unwrap(ret) ELSE [alt |-> call.self, n |-> 0]} :
          /\ cur.n < Len(call.offered)
          /\ ret' = Some([alt |-> MergeAll(cur.alt, call.offered[cur.n + 1]),
                          n |-> cur.n + 1])
    /\ UNCHANGED <<route_vars, call>>

\* the positions offered to slot s by the calls made so far, with the one the
\* slot held at first
OfferedTo(s) ==
    (IF IsSome(call.self[s]) THEN {Unwrap(call.self[s])} ELSE {})
    \cup (IF call.op = "merge_fast"
          THEN (IF s = 0 THEN {call.offered[i] : i \in 1..Unwrap(ret).n} ELSE {})
          ELSE {Unwrap(call.offered[i][s]) :
                   i \in {j \in 1..Unwrap(ret).n : IsSome(call.offered[j][s])}})

\* C25 (merge order): after merge_fast or merge_all of candidate positions
\* in any order, every slot holds a candidate with the largest from_dist
\* among those offered to that slot, and nothing when none was offered; fast
\* merge offers every candidate to slot 0 whatever its sail and leaves slots
\* 1 to 7 as they were.
C25_SlotsHoldLargestOffered ==
    (call.op \in {"merge_fast", "merge_all"} /\ IsSome(ret))
    => \A s \in Slots :
          /\ IF OfferedTo(s) = {} THEN Unwrap(ret).alt[s] = None
             ELSE /\ IsSome(Unwrap(ret).alt[s])
                  /\ Unwrap(Unwrap(ret).alt[s]) \in OfferedTo(s)
                  /\ \A pos \in OfferedTo(s) :
                        pos.from_dist <= Unwrap(Unwrap(ret).alt[s]).from_dist
          /\ (call.op = "merge_fast" /\ s # 0) => Unwrap(ret).alt[s] = call.self[s]

\* three positions of sails other than sail 0 merged fast, the farthest one
\* first, into an Alternative that held a position in slot 3
C25_Witness ==
    /\ call.op = "merge_fast"
    /\ IsSome(ret)
    /\ Unwrap(ret).n = 3
    /\ IsSome(call.self[3])
    /\ \A i \in 1..3 : call.offered[i].settings.sail.index # 0
    /\ \A i \in 2..3 : call.offered[i].from_dist < call.offered[1].from_dist
    /\ Unwrap(ret).alt[0] = Some(call.offered[1])

\* C26 (manoeuvres): add_penalties sets the tack penalty iff
\* previous_twa * new_twa < 0 and |new_twa| <= 90, the gybe penalty iff
\* previous_twa * new_twa < 0 and |new_twa| > 90, and the sail_change penalty
\* iff the previous and new sails differ (by id); a component whose manoeuvre
\* did not fire is returned unchanged, and a fired manoeuvre replaces the
\* pending penalty of its kind by the penalty of the winch case, it does not
\* add to it.
C26_ManoeuvresSetTheirPenalty ==
    (call.op = "add_penalties" /\ IsSome(ret))
    => LET turned == call.previous_twa * call.new_twa < 0
           tack == turned /\ Abs(call.new_twa) <= 90
           gybe == turned /\ Abs(call.new_twa) > 90
           sail_change == call.previous_sail.id # call.new_sail.id
           after == Unwrap(ret).penalties
       IN  /\ after.tack = (IF tack THEN Some(GetPenaltyValues(WinchTack))
                            ELSE call.penalties.tack)
           /\ after.gybe = (IF gybe THEN Some(GetPenaltyValues(WinchGybe))
                            ELSE call.penalties.gybe)
           /\ after.sail_change
                = (IF sail_change THEN Some(GetPenaltyValues(WinchSailChange))
                   ELSE call.penalties.sail_change)

\* a tack with a sail change while half a minute of each kind is pending:
\* tack and sail_change are replaced, the pending gybe stays
C26_Witness ==
    /\ call.op = "add_penalties"
    /\ IsSome(ret)
    /\ call.previous_twa = 45
    /\ call.new_twa = -45
    /\ ~SailEq(call.previous_sail, call.new_sail)
    /\ call.penalties.tack = Some([duration |-> Tick, ratio |-> 500])
    /\ Unwrap(ret).penalties
         = [gybe |-> Some([duration |-> Tick, ratio |-> 500]),
            sail_change |-> Some(WinchSailChange),
            tack |-> Some(WinchTack)]

Calls == DistanceCalls \cup DurationCalls \cup ToVecCalls \cup MinPenaltyDurationCalls
         \cup SubCalls \cup TwaCalls \cup HeadingCalls \cup AddPenaltiesCalls \cup StepCalls
         \cup {c \in {[op |-> "jump_duration", duration |-> d, penalties |-> p] :
                          d \in (Durations \ {0}) \cup {Tick \div 2, 1},
                          p \in PenaltiesValues} :
                  \/ c.duration >= SecPerMin
                  \/ PenDuration(c.penalties) < SecPerMin
                  \/ c.duration = 1}
         \cup FrontierCalls
         \cup {[op |-> "max_radius", min |-> m] :
                  m \in {-20000, 0, 80000, 18519, 18520, 92600, 185199, 185200,
                         18519999, 18520000, 92600000, 185199999, 185200000,
                         400000000}}
         \cup Way2Calls
         \cup (LET position(cells, sail_index) ==
                       [az |-> 0, point |-> <<0, cells>>,
                        from_dist |-> cells * MilliPerCell,
                        settings |-> [heading |-> TWA(90),
                                      sail |-> SailFromIndex(sail_index)]]
                   positions == {position(c, i) : c \in {40, 80}, i \in {0, 3}}
                       \cup {position(120, 3)}
                   alternatives ==
                       {[EmptyAlternative EXCEPT ![0] = a, ![3] = b] :
                           a \in {None, Some(position(40, 0)), Some(position(80, 3))},
                           b \in {None, Some(position(80, 3)), Some(position(120, 3))}}
                   orders(S) ==
                       {<<x>> : x \in S}
                       \cup {<<x, y>> : x \in S, y \in S}
                       \cup {<<x, y, z>> : x \in S, y \in S, z \in S}
               IN  {[op |-> "merge_fast", self |-> a, offered |-> o] :
                       a \in {EmptyAlternative,
                              [EmptyAlternative EXCEPT ![0] = Some(position(80, 0)),
                                                       ![3] = Some(position(40, 3))]},
                       o \in orders(positions)}
                   \cup {[op |-> "merge_all", self |-> a, offered |-> o] :
                            a \in {EmptyAlternative,
                                   [EmptyAlternative EXCEPT ![0] = Some(position(80, 0)),
                                                            ![3] = Some(position(40, 3))]},
                            o \in orders(alternatives \ {EmptyAlternative})})

InitCalls ==
    /\ NoRoute
    /\ call \in Calls
    /\ ret = None

NextCalls ==
    \/ CallDistance
    \/ CallDuration
    \/ CallToVec
    \/ CallMinPenaltyDuration
    \/ CallSub
    \/ CallTwa
    \/ CallHeading
    \/ CallAddPenalties
    \/ CallStep
    \/ CallJumpDuration
    \/ CallNavigate2
    \/ CallMaxRadius
    \/ CallWay2
    \/ CallMergeFast
    \/ CallMergeAll

SpecCalls == InitCalls /\ [][NextCalls]_vars

=============================================================================
